---- MODULE Spec2Model ----
(***************************************************************************)
(* connpass-watcher: the incremental classification-and-sync pipeline.     *)
(*                                                                         *)
(* The model follows the current scanEvents of src/src/index.ts (lines     *)
(* 43-212), the EventRepository of src/src/db/events.ts, the LLMMatcher of *)
(* src/src/matcher/llm.ts and the GoogleCalendarClient of                  *)
(* src/unnamed/part_003.  Text is a sequence of one-character strings so   *)
(* that toLowerCase() and includes() are computed, not assumed.            *)
(*                                                                         *)
(* The store is modelled with the columns the prepared statements of       *)
(* EventRepository name (events.ts 31-67).                                 *)
(***************************************************************************)
EXTENDS Integers, Sequences, FiniteSets, TLC

VARIABLES
    phase,        \* "idle": no scanEvents call is running; "start": before the for-of loop; "loop": inside it
    status,       \* outcome of the last scanEvents call: "none" | "done" | "threw" | "crashed"
    scanNo,       \* number of scanEvents calls started so far
    cfg,          \* Config and ScanOptions of the current / last scan
    fetched,      \* the list returned by connpassClient.getEvents() in the current / last scan
    idx,          \* position of the for-of loop in fetched (1-based)
    results,      \* ScanResult[] of the current / last scan
    processed,    \* table processed_events, keyed by event_id
    eventsTable,  \* table events, keyed by event_id
    calendar,     \* entries of the remote calendar
    nextCal,      \* number of entries the remote calendar has created so far, plus one
    rerun,        \* TRUE iff the current / last scan was started after a completed scan with the same events and configuration
    api,          \* the last direct call of a repository / calendar-client method, with its result
    preAuth,      \* isAuthenticated calls made by the current / last scan before it fetched (lines 56-62)
    runs,         \* per overlapping scanEvents invocation of the daemon: its position and locals
    syncFailedAt, \* history: per event id, the marker it had when its last classification ended in a failed calendar write, else NULL
    interrupted,  \* history: the (id, marker) pairs whose ProcessedRecord was written by the previous scan, if a crash ended it
    db,           \* the SQLite file: per table its columns (or absent), and the state of the EventRepository built on it
    outstanding,  \* the remote calls issued and not yet settled: [kind, event (loop position, 0 before the loop), limiter]
    proc          \* the process started by the scan or daemon command: its position, exit code, scheduled job and last log line

vars == <<phase, status, scanNo, cfg, fetched, idx, results, processed,
          eventsTable, calendar, nextCal, rerun, api, preAuth, runs, syncFailedAt, interrupted,
          outstanding, db, proc>>

----------------------------------------------------------------------------
(* Bounds *)

MaxScans == 2         \* scanEvents calls per behaviour
MaxCalEntries == 2    \* entries the remote calendar creates per behaviour

----------------------------------------------------------------------------
(* Text *)

NULL == "NULL"        \* null / undefined of a string-valued field

\* JavaScript truthiness of a string | null | undefined value
Truthy(s) == s # NULL /\ s # ""

LowerChar(c) ==
    CASE c = "B" -> "b"
      [] c = "C" -> "c"
      [] c = "F" -> "f"
      [] c = "P" -> "p"
      [] c = "G" -> "g"
      [] c = "K" -> "k"
      [] c = "L" -> "l"
      [] c = "O" -> "o"
      [] c = "T" -> "t"
      [] OTHER -> c

\* String.prototype.toLowerCase
ToLowerCase(s) == [i \in DOMAIN s |-> LowerChar(s[i])]

\* String.prototype.includes
Includes(s, sub) ==
    \E i \in 0..(Len(s) - Len(sub)) : SubSeq(s, i + 1, i + Len(sub)) = sub

TitleGo == <<"G", "o">>
TitleGoLT == <<"G", "o", " ", "L", "T">>
TitleBook == <<"B", "o", "o", "k">>
Titles == {TitleGo, TitleGoLT, TitleBook}

KwBook == <<"b", "o", "o", "K">>

----------------------------------------------------------------------------
(* Configuration: Config (config/schema.ts) and ScanOptions *)

MinParticipants == 50     \* interests.min_participants
ColorPopular == "6"       \* google_calendar.color_popular
ColorSpeaker == "9"       \* google_calendar.color_speaker

ExcludeLists == {<< >>, <<KwBook>>}

Configs ==
    [dryRun : BOOLEAN,                \* options.dryRun
     calendar_enabled : BOOLEAN,      \* google_calendar.enabled
     llm_enabled : BOOLEAN,           \* llm.enabled
     llm_provider : {"anthropic"},    \* llm.provider (the schema's default)
     exclude_keywords : ExcludeLists, \* interests.exclude_keywords
     min_participants : {MinParticipants},
     color_popular : {ColorPopular},
     color_speaker : {ColorSpeaker}]

----------------------------------------------------------------------------
(* Events returned by the events source *)

EventIds == {1}                   \* the id of the event followed over the scans
Accepted == {10, 50}
Markers == {"t1", "t2"}           \* updated_at of the source (ISO 8601, never empty)

\* the fields of a ConnpassEvent / EnrichedEvent that only the events table
\* reads: time window, venue, and the flags enrichEvent adds
ScheduleA ==
    [started_at |-> "s1", ended_at |-> "e1", place |-> NULL, address |-> NULL,
     is_online |-> FALSE, is_tokyo |-> TRUE]
ScheduleB ==
    [started_at |-> "s2", ended_at |-> "e2", place |-> "p1", address |-> "a1",
     is_online |-> TRUE, is_tokyo |-> FALSE]

Events ==
    {core @@ ScheduleA :
        core \in [id : EventIds, title : Titles, accepted : Accepted, updated_at : Markers]}

\* getEvents() returns at most one event per id (Map keyed by id, client.ts 210)
EventLists ==
    {l \in UNION {[1..n -> Events] : n \in 0..Cardinality(EventIds)} :
        \A i, j \in DOMAIN l : i # j => l[i].id # l[j].id}

----------------------------------------------------------------------------
(* Exclusion and speaker heuristics *)

\* shouldExclude comparing the lower-cased title with the keyword as configured
shouldExclude_keywordCase(event, excludeKeywords) ==
    LET title == ToLowerCase(event.title)
    IN \E k \in DOMAIN excludeKeywords : Includes(title, excludeKeywords[k])

shouldExclude(event, excludeKeywords) ==
    LET title == ToLowerCase(event.title)
    IN \E k \in DOMAIN excludeKeywords :
           Includes(title, ToLowerCase(excludeKeywords[k]))

\* The ASCII literals of the lists; the other literals of the lists are
\* outside the alphabet of the titles modelled and match none of them.
SLOT_KEYWORDS ==
    << <<"L", "T">>,
       <<"s", "p", "e", "a", "k", "e", "r">>,
       <<"p", "r", "e", "s", "e", "n", "t", "e", "r">>,
       <<"l", "i", "g", "h", "t", "n", "i", "n", "g">> >>

CFP_KEYWORDS ==
    << <<"C", "F", "P">>,
       <<"C", "a", "l", "l", " ", "f", "o", "r", " ", "P", "r", "o", "p", "o", "s", "a", "l", "s">>,
       <<"C", "a", "l", "l", " ", "f", "o", "r", " ", "P", "a", "p", "e", "r", "s">> >>

\* the ASCII literals of SPEAKER_KEYWORDS
SPEAKER_KEYWORDS ==
    << <<"L", "T">>,
       <<"C", "F", "P">>,
       <<"l", "i", "g", "h", "t", "n", "i", "n", "g", " ", "t", "a", "l", "k">>,
       <<"s", "p", "e", "a", "k", "e", "r">>,
       <<"p", "r", "e", "s", "e", "n", "t", "e", "r">>,
       <<"c", "a", "l", "l", " ", "f", "o", "r", " ", "p", "r", "o", "p", "o", "s", "a", "l", "s">>,
       <<"c", "a", "l", "l", " ", "f", "o", "r", " ", "p", "a", "p", "e", "r", "s">>,
       <<"p", "r", "o", "p", "o", "s", "a", "l">> >>

\* Array.prototype.some with a callback that pushes the keyword it accepts:
\* the first keyword of the list found in one of the texts, if any
FirstKeyword(list, texts) ==
    LET hits == {k \in DOMAIN list : \E t \in texts : Includes(t, ToLowerCase(list[k]))}
    IN IF hits = {} THEN << >>
       ELSE <<list[CHOOSE k \in hits : \A j \in hits : k <= j]>>

\* lines 92-97: every keyword of the list found in text and not yet detected
RECURSIVE PushMissing(_, _, _)
PushMissing(detected, list, text) ==
    IF list = << >> THEN detected
    ELSE PushMissing(IF /\ Includes(text, ToLowerCase(Head(list)))
                        /\ \A i \in DOMAIN detected : detected[i] # Head(list)
                     THEN Append(detected, Head(list))
                     ELSE detected,
                     Tail(list), text)

SomeKeyword(list, text) ==
    \E k \in DOMAIN list : Includes(text, ToLowerCase(list[k]))

\* has_lt_slot, has_cfp and has_opportunity of analyzeSpeakerOpportunity;
\* description is the text after stripHtml.
analyzeSpeakerOpportunity(titleText, catchRaw, description) ==
    LET title == ToLowerCase(titleText)
        catchText == ToLowerCase(catchRaw)
        combinedText == title \o <<" ">> \o catchText \o <<" ">> \o ToLowerCase(description)
        hasLtSlot == SomeKeyword(SLOT_KEYWORDS, title) \/ SomeKeyword(SLOT_KEYWORDS, catchText)
        hasCfp == SomeKeyword(CFP_KEYWORDS, combinedText)
        slotPushed == FirstKeyword(SLOT_KEYWORDS, {title, catchText})
        cfpFound == FirstKeyword(CFP_KEYWORDS, {combinedText})
        cfpPushed == IF cfpFound # << >> /\ cfpFound # slotPushed
                     THEN slotPushed \o cfpFound ELSE slotPushed
    IN [has_opportunity |-> hasLtSlot \/ hasCfp,
        has_lt_slot |-> hasLtSlot,
        has_cfp |-> hasCfp,
        detected_keywords |-> PushMissing(cfpPushed, SPEAKER_KEYWORDS, combinedText)]

----------------------------------------------------------------------------
(* Event store: EventRepository *)

NullScore == -1       \* SQL NULL in the INTEGER column interest_score

Bit(b) == IF b THEN 1 ELSE 0

isProcessed(tbl, eventId) == eventId \in DOMAIN tbl

getProcessedEvent(tbl, eventId) ==
    IF eventId \in DOMAIN tbl THEN tbl[eventId] ELSE [event_id |-> 0]

\* stmtMarkProcessed as INSERT OR IGNORE: an existing row is kept as it is
markProcessed_keepFirst(tbl, params) ==
    LET id == params.eventId
        row == [event_id |-> id,
                has_speaker_opportunity |-> Bit(params.hasSpeakerOpportunity),
                has_interest_match |-> Bit(params.hasInterestMatch),
                interest_score |-> params.interestScore,
                calendar_event_id |-> params.calendarEventId,
                connpass_updated_at |-> params.connpassUpdatedAt]
    IN [i \in DOMAIN tbl \cup {id} |-> IF i \in DOMAIN tbl THEN tbl[i] ELSE row]

\* markProcessed writing @calendar_event_id without COALESCE
markProcessed_overwrite(tbl, params) ==
    LET id == params.eventId
        row == [event_id |-> id,
                has_speaker_opportunity |-> Bit(params.hasSpeakerOpportunity),
                has_interest_match |-> Bit(params.hasInterestMatch),
                interest_score |-> params.interestScore,
                calendar_event_id |-> params.calendarEventId,
                connpass_updated_at |-> params.connpassUpdatedAt]
    IN [i \in DOMAIN tbl \cup {id} |-> IF i = id THEN row ELSE tbl[i]]

\* stmtMarkProcessed as run by markProcessed: INSERT ... ON CONFLICT(event_id)
\* DO UPDATE, calendar_event_id = COALESCE(@calendar_event_id, calendar_event_id)
markProcessed(tbl, params) ==
    LET id == params.eventId
        old == IF id \in DOMAIN tbl THEN tbl[id].calendar_event_id ELSE NULL
        row == [event_id |-> id,
                has_speaker_opportunity |-> Bit(params.hasSpeakerOpportunity),
                has_interest_match |-> Bit(params.hasInterestMatch),
                interest_score |-> params.interestScore,
                calendar_event_id |->
                    IF params.calendarEventId # NULL THEN params.calendarEventId ELSE old,
                connpass_updated_at |-> params.connpassUpdatedAt]
    IN [i \in DOMAIN tbl \cup {id} |-> IF i = id THEN row ELSE tbl[i]]

\* needsReprocessing with the comparison inverted
needsReprocessing_inverted(tbl, eventId, currentUpdatedAt) ==
    IF eventId \notin DOMAIN tbl THEN FALSE
    ELSE IF ~Truthy(tbl[eventId].connpass_updated_at) THEN TRUE
    ELSE tbl[eventId].connpass_updated_at = currentUpdatedAt

needsReprocessing(tbl, eventId, currentUpdatedAt) ==
    IF eventId \notin DOMAIN tbl THEN FALSE
    ELSE IF ~Truthy(tbl[eventId].connpass_updated_at) THEN TRUE
    ELSE tbl[eventId].connpass_updated_at # currentUpdatedAt

\* the parameters saveEvent binds to stmtUpsertEvent (events.ts 74-85)
eventRow(event) ==
    [event_id |-> event.id, title |-> event.title,
     started_at |-> event.started_at, ended_at |-> event.ended_at,
     place |-> event.place, address |-> event.address,
     is_online |-> Bit(event.is_online), is_tokyo |-> Bit(event.is_tokyo),
     connpass_updated_at |-> event.updated_at]

\* stmtUpsertEvent with ON CONFLICT(event_id) DO NOTHING
saveEvent_insertOnly(tbl, event) ==
    [i \in DOMAIN tbl \cup {event.id} |->
        IF i \in DOMAIN tbl THEN tbl[i] ELSE eventRow(event)]

\* stmtUpsertEvent: INSERT ... ON CONFLICT(event_id) DO UPDATE SET every column
saveEvent(tbl, event) ==
    [i \in DOMAIN tbl \cup {event.id} |->
        IF i = event.id THEN eventRow(event) ELSE tbl[i]]

\* the loop of saveEvents: stmtUpsertEvent for every event, in order
RECURSIVE saveEvents(_, _)
saveEvents(tbl, events) ==
    IF events = << >> THEN tbl
    ELSE saveEvents(saveEvent(tbl, Head(events)), Tail(events))

\* saveEvents without db.transaction: the rows before the failing one stay
saveEventsTx_noTransaction(tbl, events, failAt) ==
    IF failAt = 0
    THEN [table |-> saveEvents(tbl, events), threw |-> FALSE]
    ELSE [table |-> saveEvents(tbl, SubSeq(events, 1, failAt - 1)), threw |-> TRUE]

\* saveEvents (events.ts 91-100): the loop runs inside db.transaction, which
\* commits when the loop returns and rolls back and rethrows when the
\* failAt-th stmtUpsertEvent.run throws (failAt = 0: none throws)
saveEventsTx(tbl, events, failAt) ==
    IF failAt = 0
    THEN [table |-> saveEvents(tbl, events), threw |-> FALSE]
    ELSE [table |-> tbl, threw |-> TRUE]

----------------------------------------------------------------------------
(* Hybrid classifier: LLMMatcher.analyzeEvent *)

LLMScores == {10}

\* What provider.generateText does for one prompt: it throws, or it returns
\* text from which analyzeEvent parses the interest and speaker objects.
\* A "json" answer is the object JSON.parse returned. missing: the fields the
\* object lacks; reading one gives undefined, and the record then carries what
\* the readers of the field make of undefined (false in a condition and under
\* `? 1 : 0`, 0 under `?? 0`).
LLMOutcomes ==
    {[kind |-> "throw"]} \cup
    {[kind |-> "json", is_match |-> m, score |-> s, has_opportunity |-> o,
      has_lt_slot |-> o, has_cfp |-> FALSE, missing |-> {}] :
        m \in BOOLEAN, s \in LLMScores, o \in BOOLEAN}

\* the scores a provider may answer with; the prompt asks for 0-100
ResponseScores == {0, 10, 150}
RequiredFields == {"is_match", "score", "has_opportunity"}

\* Every answer of a provider: generateText throws, the text holds no JSON,
\* the JSON does not parse, the parsed object has no interest (or speaker)
\* object, or it has both, with any values and at most one field missing.
LLMResponses ==
    {[kind |-> k] : k \in {"throw", "no_json", "bad_json", "no_object"}} \cup
    {r \in [kind : {"json"}, is_match : BOOLEAN, score : ResponseScores,
            has_opportunity : BOOLEAN, has_lt_slot : BOOLEAN, has_cfp : BOOLEAN,
            missing : {{}} \cup {{f} : f \in RequiredFields}] :
        /\ "is_match" \in r.missing => ~r.is_match
        /\ "score" \in r.missing => r.score = 0
        /\ "has_opportunity" \in r.missing => ~r.has_opportunity}

defaultResult ==
    [interest |-> [is_match |-> FALSE, score |-> 0],
     speaker |-> [has_opportunity |-> FALSE, has_lt_slot |-> FALSE, has_cfp |-> FALSE],
     undefined |-> {}]

\* lines 177-190: the fields are copied from the parsed object as they are
parsedResult(llm) ==
    [interest |-> [is_match |-> llm.is_match, score |-> llm.score],
     speaker |-> [has_opportunity |-> llm.has_opportunity,
                  has_lt_slot |-> llm.has_lt_slot, has_cfp |-> llm.has_cfp],
     undefined |-> llm.missing]

\* analyzeEvent returning a positive speaker verdict from its catch block
analyzeEvent_catchPositive(config, llm) ==
    IF ~config.llm_enabled
    THEN [result |-> defaultResult, calls |-> 0, threw |-> FALSE]
    ELSE IF llm.kind # "json"
    THEN [result |-> [defaultResult EXCEPT !.speaker.has_opportunity = TRUE],
          calls |-> 1, threw |-> TRUE]
    ELSE [result |-> parsedResult(llm), calls |-> 1, threw |-> FALSE]

\* calls: number of generateText invocations made; threw: something inside
\* the try block threw (generateText, "No JSON found in response", JSON.parse,
\* or reading a field of a missing interest / speaker object) and the catch
\* block (lines 191-208) returned defaultResult
analyzeEvent(config, llm) ==
    IF ~config.llm_enabled
    THEN [result |-> defaultResult, calls |-> 0, threw |-> FALSE]
    ELSE IF llm.kind # "json"
    THEN [result |-> defaultResult, calls |-> 1, threw |-> TRUE]
    ELSE [result |-> parsedResult(llm), calls |-> 1, threw |-> FALSE]

\* String.prototype.replace(/<[^>]*>/g, " ")
RECURSIVE ReplaceTags(_)
ReplaceTags(s) ==
    IF s = << >> THEN << >>
    ELSE IF Head(s) = "<" /\ \E j \in 2..Len(s) : s[j] = ">"
    THEN LET close == CHOOSE j \in 2..Len(s) :
                          s[j] = ">" /\ \A k \in 2..(j - 1) : s[k] # ">"
         IN <<" ">> \o ReplaceTags(SubSeq(s, close + 1, Len(s)))
    ELSE <<Head(s)>> \o ReplaceTags(Tail(s))

\* String.prototype.replace(/\s+/g, " ")
RECURSIVE CollapseSpaces(_)
CollapseSpaces(s) ==
    IF Len(s) < 2 THEN s
    ELSE IF s[1] = " " /\ s[2] = " " THEN CollapseSpaces(Tail(s))
    ELSE <<Head(s)>> \o CollapseSpaces(Tail(s))

\* String.prototype.trim
RECURSIVE Trim(_)
Trim(s) ==
    IF s = << >> THEN s
    ELSE IF Head(s) = " " THEN Trim(Tail(s))
    ELSE IF s[Len(s)] = " " THEN Trim(SubSeq(s, 1, Len(s) - 1))
    ELSE s

stripHtml(html) == Trim(CollapseSpaces(ReplaceTags(html)))

TextLT == <<"L", "T">>
TextCfpTagged == <<"<", "b", ">", "C", "F", "P", "<", "/", "b", ">">>
TextCfpSplit == <<"C", "<", "i", ">", "F", "P">>
SpeakerTexts == {<< >>, TextLT, TextCfpTagged, TextCfpSplit}
TitleLTLightning == <<"L", "T", " ", "l", "i", "g", "h", "t", "n", "i", "n", "g">>
SpeakerEvents == [title : {TitleGo, TitleGoLT, TitleLTLightning}, catch : {<< >>, TextLT}, description : SpeakerTexts]

----------------------------------------------------------------------------
(* Calendar reconciler: GoogleCalendarClient *)

CalIdNames == <<"c1", "c2", "c3", "c4", "c5", "c6">>

\* getColorId testing isPopular first
getColorId_popularFirst(config, hasSpeakerOpportunity, isPopular) ==
    IF isPopular THEN config.color_popular
    ELSE IF hasSpeakerOpportunity THEN config.color_speaker
    ELSE NULL

getColorId(config, hasSpeakerOpportunity, isPopular) ==
    IF hasSpeakerOpportunity THEN config.color_speaker
    ELSE IF isPopular THEN config.color_popular
    ELSE NULL

\* requestBody of addEvent / updateEvent as the calendar keeps it: summary is
\* read back by findExistingEvent, source.url identifies the source event;
\* colorId is sent with the write and never read back.
calendarEvent(id, event, colorId) ==
    [id |-> id, summary |-> event.title, source |-> event.id]

\* the items of events.list that findExistingEvent's find() accepts
ExistingMatches(cal, event) == {e \in cal : Includes(e.summary, event.title)}

\* What the remote calendar does during one upsertEvent:
\*   list  : events.list answers ("ok") or fails ("fail")
\*   pick  : the accepted item that comes first in the answer
\*   write : events.insert / events.update succeeds ("ok") or throws ("throw")
CalendarOutcomes(cal, event) ==
    [list : {"ok", "fail"},
     pick : {e.id : e \in ExistingMatches(cal, event)} \cup {NULL},
     write : {"ok", "throw"}]

findExistingEvent(cal, event, out) ==
    IF out.list = "fail" THEN NULL
    ELSE IF ExistingMatches(cal, event) = {} THEN NULL
    ELSE out.pick

\* upsertEvent inserting whatever findExistingEvent returned
writeEvent_alwaysInsert(cal, next, event, colorId, existingEventId, out) ==
    IF out.write = "throw"
    THEN [calendar |-> cal, nextCal |-> next, calendarEventId |-> NULL,
          action |-> "skipped", threw |-> TRUE, insert |-> 1, update |-> 0]
    ELSE [calendar |-> cal \cup {calendarEvent(CalIdNames[next], event, colorId)},
          nextCal |-> next + 1, calendarEventId |-> CalIdNames[next],
          action |-> "created", threw |-> FALSE, insert |-> 1, update |-> 0]

\* upsertEvent lines 489-500 after the lookup: updateEvent on the identifier
\* found, addEvent otherwise; both rethrow what the calendar throws
\* (threw: no result is returned)
writeEvent(cal, next, event, colorId, existingEventId, out) ==
    IF Truthy(existingEventId)
    THEN IF out.write = "throw"
         THEN [calendar |-> cal, nextCal |-> next, calendarEventId |-> NULL,
               action |-> "skipped", threw |-> TRUE, insert |-> 0, update |-> 1]
         ELSE [calendar |-> {e \in cal : e.id # existingEventId}
                              \cup {calendarEvent(existingEventId, event, colorId)},
               nextCal |-> next, calendarEventId |-> existingEventId,
               action |-> "updated", threw |-> FALSE, insert |-> 0, update |-> 1]
    ELSE IF out.write = "throw"
         THEN [calendar |-> cal, nextCal |-> next, calendarEventId |-> NULL,
               action |-> "skipped", threw |-> TRUE, insert |-> 1, update |-> 0]
         ELSE [calendar |-> cal \cup {calendarEvent(CalIdNames[next], event, colorId)},
               nextCal |-> next + 1, calendarEventId |-> CalIdNames[next],
               action |-> "created", threw |-> FALSE, insert |-> 1, update |-> 0]

\* upsertEvent without the test of google_calendar.enabled
upsertEvent_ignoreDisabled(config, cal, next, event, colorId, out) ==
    writeEvent(cal, next, event, colorId, findExistingEvent(cal, event, out), out)
        @@ [list |-> 1]

upsertEvent(config, cal, next, event, colorId, out) ==
    IF ~config.calendar_enabled
    THEN [calendar |-> cal, nextCal |-> next, calendarEventId |-> NULL, action |-> "skipped",
          threw |-> FALSE, list |-> 0, insert |-> 0, update |-> 0]
    ELSE writeEvent(cal, next, event, colorId, findExistingEvent(cal, event, out), out)
             @@ [list |-> 1]

----------------------------------------------------------------------------
(* Scan orchestrator: the body of the for-of loop of scanEvents *)

PopularScore == 80

\* the popularity test with a strict comparison
isPopularEvent_strict(event, minParticipants) == event.accepted > minParticipants

isPopularEvent(event, minParticipants) == event.accepted >= minParticipants

categoryOf(hasSpeakerOpportunity, isPopular) ==
    IF hasSpeakerOpportunity THEN "speaker"
    ELSE IF isPopular THEN "popular"
    ELSE "interest"

\* the no-match test looking at the interest verdict only
isNoMatch_interestOnly(isInterested, hasSpeakerOpportunity) == ~isInterested

\* line 125: the event matches neither facet
isNoMatch(isInterested, hasSpeakerOpportunity) == ~isInterested /\ ~hasSpeakerOpportunity

\* resultAction reporting a skipped reconciliation as "filtered"
resultAction_filtered(calendarAction) ==
    IF calendarAction = "updated" THEN "updated"
    ELSE IF calendarAction = "created" THEN "registered"
    ELSE "filtered"

resultAction(calendarAction) ==
    IF calendarAction = "updated" THEN "updated"
    ELSE IF calendarAction = "created" THEN "registered"
    ELSE "skipped"

\* line 156: the scan tries to reach the calendar
attemptsSync_ignoreDryRun(config) == config.calendar_enabled

attemptsSync(config) == ~config.dryRun /\ config.calendar_enabled

\* markProcessed placed inside the try block: not reached when the sync threw
markAfterSync_insideTry(tbl, params, syncThrew) ==
    IF syncThrew THEN tbl ELSE markProcessed(tbl, params)

\* lines 176-184: markProcessed runs after the try / catch, whether or not
\* the calendar write threw
markAfterSync(tbl, params, syncThrew) == markProcessed(tbl, params)

\* A ScanResult, with the verdicts attached to its event and the remote calls
\* made for it (llm: generateText, auth: isAuthenticated, list / insert /
\* update: calendar events.list / events.insert / events.update; llmThrew:
\* generateText threw; isAuth: isAuthenticated returned true; calThrew: the
\* calendar write threw).
ScanResult(event, action, classified, interest, speaker, category, colorId, calendarEventId, calls) ==
    [id |-> event.id, action |-> action, classified |-> classified,
     interest_match |-> interest, hasSpeakerOpportunity |-> speaker,
     category |-> category,
     colorId |-> IF Truthy(colorId) THEN colorId ELSE NULL,
     calendarEventId |-> IF Truthy(calendarEventId) THEN calendarEventId ELSE NULL,
     llm |-> calls.llm, auth |-> calls.auth, list |-> calls.list,
     insert |-> calls.insert, update |-> calls.update,
     llmThrew |-> calls.llmThrew, isAuth |-> calls.isAuth, calThrew |-> calls.calThrew]

NoCalls == [llm |-> 0, auth |-> 0, list |-> 0, insert |-> 0, update |-> 0,
            llmThrew |-> FALSE, isAuth |-> FALSE, calThrew |-> FALSE]
NoInterest == [is_match |-> FALSE, score |-> NullScore]     \* event.interest_match undefined

Unclassified(event, action) ==
    ScanResult(event, action, FALSE, NoInterest, FALSE, NULL, NULL, NULL, NoCalls)

\* Inputs of one iteration: what the LLM, isAuthenticated and the calendar do.
ScanInputs(cal, event) ==
    [llm : LLMOutcomes, auth : BOOLEAN, cal : CalendarOutcomes(cal, event)]

\* One iteration for `event`: the tables and the calendar afterwards, and the
\* results pushed.
scanOne(config, tbl, cal, next, event, in) ==
    LET isProc == isProcessed(tbl, event.id)
        needs == isProc /\ needsReprocessing(tbl, event.id, event.updated_at)
        existingCal == IF isProc THEN getProcessedEvent(tbl, event.id).calendar_event_id ELSE NULL
        same == [processed |-> tbl, calendar |-> cal, nextCal |-> next]
    IN
    IF isProc /\ ~needs
    THEN same @@ [push |-> <<Unclassified(event, "already_processed")>>]
    ELSE IF shouldExclude(event, config.exclude_keywords)
    THEN same @@ [push |-> <<Unclassified(event, "excluded")>>]
    ELSE
    LET isPopular == isPopularEvent(event, config.min_participants)
        llmRun == analyzeEvent(config, in.llm)
        interest == IF isPopular THEN [is_match |-> TRUE, score |-> PopularScore]
                    ELSE llmRun.result.interest
        hasSpeakerOpportunity == IF isPopular THEN FALSE
                                 ELSE llmRun.result.speaker.has_opportunity
        isInterested == interest.is_match
        llmCalls == IF isPopular THEN 0 ELSE llmRun.calls
        llmThrew == ~isPopular /\ llmRun.threw
    IN
    IF isNoMatch(isInterested, hasSpeakerOpportunity)
    THEN [processed |-> markProcessed(tbl,
                            [eventId |-> event.id,
                             hasSpeakerOpportunity |-> FALSE,
                             hasInterestMatch |-> FALSE,
                             interestScore |-> interest.score,
                             calendarEventId |-> NULL,
                             connpassUpdatedAt |-> event.updated_at]),
          calendar |-> cal, nextCal |-> next,
          push |-> <<ScanResult(event, "no_match", TRUE, interest, hasSpeakerOpportunity,
                                NULL, NULL, NULL,
                                [NoCalls EXCEPT !.llm = llmCalls, !.llmThrew = llmThrew])>>]
    ELSE
    LET category == categoryOf(hasSpeakerOpportunity, isPopular)
        colorId == getColorId(config, hasSpeakerOpportunity, isPopular)
        attempt == attemptsSync(config)
        isAuth == attempt /\ in.auth
        up == IF isAuth
              THEN upsertEvent(config, cal, next, event, colorId, in.cal)
              ELSE [calendar |-> cal, nextCal |-> next, calendarEventId |-> NULL,
                    action |-> "skipped", threw |-> TRUE,
                    list |-> 0, insert |-> 0, update |-> 0]
        \* the assignments of lines 162-163 are reached only if upsertEvent returned
        calendarEventId == IF isAuth /\ ~up.threw THEN up.calendarEventId ELSE existingCal
        calendarAction == IF isAuth /\ ~up.threw THEN up.action ELSE "skipped"
        syncThrew == isAuth /\ up.threw
    IN
    [processed |-> markAfterSync(tbl,
                       [eventId |-> event.id,
                        hasSpeakerOpportunity |-> hasSpeakerOpportunity,
                        hasInterestMatch |-> isInterested,
                        interestScore |-> interest.score,
                        calendarEventId |-> IF Truthy(calendarEventId) THEN calendarEventId ELSE NULL,
                        connpassUpdatedAt |-> event.updated_at], syncThrew),
     calendar |-> up.calendar, nextCal |-> up.nextCal,
     push |-> <<ScanResult(event, resultAction(calendarAction), TRUE, interest,
                           hasSpeakerOpportunity, category, colorId, calendarEventId,
                           [llm |-> llmCalls, auth |-> Bit(attempt), list |-> up.list,
                            insert |-> up.insert, update |-> up.update,
                            llmThrew |-> llmThrew, isAuth |-> isAuth,
                            calThrew |-> syncThrew])>>]

----------------------------------------------------------------------------
(* scanEvents as a state machine *)

EmptyTable == [i \in {} |-> 0]
NoCall == [op |-> "none"]

DefaultConfig ==
    [dryRun |-> FALSE, calendar_enabled |-> TRUE, llm_enabled |-> TRUE,
     llm_provider |-> "anthropic", exclude_keywords |-> << >>, min_participants |-> MinParticipants,
     color_popular |-> ColorPopular, color_speaker |-> ColorSpeaker]

\* the scheduled job (lines 386-400) can start scanEvents while the previous
\* invocation is still awaiting: two invocations
Runs == {1, 2}

\* locals of an invocation that has not started
\* db before initializeDatabase opened the file
ClosedDb == [state |-> "closed"]

\* no command has been given yet
NoProcess ==
    [command |-> NULL, state |-> "none", exitCode |-> NULL, before |-> 0,
     fired |-> 0, failed |-> 0, log |-> NULL]

\* scanEvents calls a behaviour may make: a daemon makes its initial scan
\* before the scheduled ones
ScanLimit == IF proc.command = "daemon" THEN MaxScans + 1 ELSE MaxScans

IdleRun ==
    [pc |-> "idle", event |-> NULL, interest |-> NoInterest, speaker |-> FALSE,
     popular |-> FALSE, existingCal |-> NULL, existingEventId |-> NULL,
     cleanLookup |-> TRUE, action |-> NULL, page |-> 1, calls |-> NoCalls,
     allEvents |-> << >>]

Init ==
    /\ phase = "idle"
    /\ status = "none"
    /\ scanNo = 0
    /\ cfg = DefaultConfig
    /\ fetched = << >>
    /\ idx = 1
    /\ results = << >>
    /\ processed = EmptyTable
    /\ eventsTable = EmptyTable
    /\ calendar = {}
    /\ nextCal = 1
    /\ rerun = FALSE
    /\ api = NoCall
    /\ preAuth = 0
    /\ runs = [p \in Runs |-> IdleRun]
    /\ syncFailedAt = [i \in EventIds |-> NULL]
    /\ interrupted = {}
    /\ outstanding = {}
    /\ db = ClosedDb
    /\ proc = NoProcess

\* the events for which the current / last scan called markProcessed
RecordsWritten ==
    {[id |-> fetched[i].id, marker |-> fetched[i].updated_at] :
        i \in {j \in 1..Len(results) : results[j].classified}}

\* scanEvents lines 43-73: the authentication check of lines 56-62 is made,
\* getEvents() returns `events`, saveEvents stores them
StartScan(config, events) ==
    /\ phase = "idle"
    /\ scanNo < ScanLimit
    /\ phase' = "loop"
    /\ status' = "none"
    /\ scanNo' = scanNo + 1
    /\ cfg' = config
    /\ fetched' = events
    /\ idx' = 1
    /\ results' = << >>
    /\ eventsTable' = saveEvents(eventsTable, events)
    /\ rerun' = (status = "done" /\ events = fetched /\ config = cfg)
    /\ api' = NoCall
    /\ preAuth' = Bit(attemptsSync(config))
    /\ interrupted' = IF status = "crashed" THEN RecordsWritten ELSE {}
    /\ UNCHANGED <<proc, db, outstanding, syncFailedAt, runs, processed, calendar, nextCal>>

\* scanEvents saving a page getEvents had collected before the failing request
FetchFails_savesPartial(config) ==
    /\ phase = "idle"
    /\ scanNo < ScanLimit
    /\ status' = "threw"
    /\ scanNo' = scanNo + 1
    /\ cfg' = config
    /\ fetched' = << >>
    /\ idx' = 1
    /\ results' = << >>
    /\ rerun' = FALSE
    /\ api' = NoCall
    /\ preAuth' = Bit(attemptsSync(config))
    /\ eventsTable' = saveEvents(eventsTable,
                           <<[id |-> 1, title |-> TitleGo, accepted |-> 10,
                              updated_at |-> "t1"] @@ ScheduleA>>)
    /\ UNCHANGED <<proc, db, outstanding, syncFailedAt, interrupted, runs, phase, processed, calendar, nextCal>>

\* scanEvents lines 56-66: after the authentication check, a page request of
\* getEvents() throws and scanEvents rejects; the events of the pages received
\* before are lost with getEvents' local allEvents
FetchFails(config) ==
    /\ phase = "idle"
    /\ scanNo < ScanLimit
    /\ status' = "threw"
    /\ scanNo' = scanNo + 1
    /\ cfg' = config
    /\ fetched' = << >>
    /\ idx' = 1
    /\ results' = << >>
    /\ rerun' = FALSE
    /\ api' = NoCall
    /\ preAuth' = Bit(attemptsSync(config))
    /\ UNCHANGED <<proc, db, outstanding, syncFailedAt, interrupted, runs, phase, processed, eventsTable, calendar, nextCal>>

\* scanEvents lines 76-208: one iteration of the loop
ProcessEvent(in) ==
    /\ phase = "loop"
    /\ idx <= Len(fetched)
    /\ LET r == scanOne(cfg, processed, calendar, nextCal, fetched[idx], in)
       IN /\ r.nextCal <= MaxCalEntries + 1
          /\ processed' = r.processed
          /\ calendar' = r.calendar
          /\ nextCal' = r.nextCal
          /\ results' = results \o r.push
          /\ UNCHANGED <<proc, db, preAuth, runs, interrupted, outstanding>>
          /\ syncFailedAt' =
                IF r.push[1].classified
                THEN [syncFailedAt EXCEPT ![r.push[1].id] =
                         IF r.push[1].calThrew THEN fetched[idx].updated_at ELSE NULL]
                ELSE syncFailedAt
    /\ idx' = idx + 1
    /\ UNCHANGED <<phase, status, scanNo, cfg, fetched, eventsTable, rerun, api>>

\* scanEvents lines 210-211: the loop is over, the results are returned
FinishScan ==
    /\ phase = "loop"
    /\ idx > Len(fetched)
    /\ phase' = "idle"
    /\ status' = "done"
    /\ UNCHANGED <<proc, db, outstanding, syncFailedAt, interrupted, preAuth, runs, scanNo, cfg, fetched, idx, results, processed, eventsTable,
                   calendar, nextCal, rerun, api>>

\* a crash whose uncommitted work included the records of the running scan
Crash_losesRecords ==
    /\ phase = "loop"
    /\ phase' = "idle"
    /\ status' = "crashed"
    /\ processed' = [id \in DOMAIN processed \ {r.id : r \in RecordsWritten} |-> processed[id]]
    /\ UNCHANGED <<proc, db, outstanding, syncFailedAt, interrupted, preAuth, runs, scanNo, cfg, fetched, idx, results,
                   eventsTable, calendar, nextCal, rerun, api>>

\* The process dies between two iterations of the loop: every markProcessed
\* already executed is committed (events.ts 121-139 runs one statement in
\* autocommit), db.close() of line 210 is not reached
Crash ==
    /\ phase = "loop"
    /\ phase' = "idle"
    /\ status' = "crashed"
    /\ UNCHANGED <<proc, db, outstanding, syncFailedAt, interrupted, preAuth, runs, scanNo, cfg, fetched, idx, results,
                   processed, eventsTable, calendar, nextCal, rerun, api>>

Next ==
    \/ \E config \in Configs, events \in EventLists : StartScan(config, events)
    \/ \E config \in Configs : FetchFails(config)
    \/ \E in \in ScanInputs(calendar, IF idx <= Len(fetched) THEN fetched[idx] ELSE [title |-> << >>]) :
           ProcessEvent(in)
    \/ FinishScan

Spec == Init /\ [][Next]_vars

\* Scans that a crash may interrupt; the program is restarted with the
\* configuration it had
NextCrash ==
    \/ \E config \in Configs, events \in EventLists :
           (scanNo = 0 \/ config = cfg) /\ StartScan(config, events)
    \/ \E in \in ScanInputs(calendar, IF idx <= Len(fetched) THEN fetched[idx] ELSE [title |-> << >>]) :
           ProcessEvent(in)
    \/ FinishScan
    \/ Crash

SpecCrash == Init /\ [][NextCrash]_vars

\* Two source events of one scan whose titles may contain one another; both
\* take place in the same time window (ScheduleA)
PairIds == {1, 2}
PairLists ==
    {<<e1 @@ ScheduleA, e2 @@ ScheduleA>> :
        e1 \in [id : {1}, title : {TitleGo, TitleGoLT}, accepted : {MinParticipants}, updated_at : {"t1"}],
        e2 \in [id : {2}, title : {TitleGo, TitleGoLT}, accepted : {MinParticipants}, updated_at : {"t1"}]}

\* Scans of two events under the default configuration
NextPairs ==
    \/ \E events \in PairLists : StartScan(DefaultConfig, events)
    \/ \E in \in ScanInputs(calendar, IF idx <= Len(fetched) THEN fetched[idx] ELSE [title |-> << >>]) :
           ProcessEvent(in)
    \/ FinishScan

SpecPairs == Init /\ [][NextPairs]_vars

\* findExistingEvent lines 441-458: events.list answers and returns an entry
\* that find() accepts whenever there is one
LookupSucceeds(cal, event, out) ==
    out.list = "ok" /\ (ExistingMatches(cal, event) # {} => out.pick # NULL)

\* The process dies inside an iteration, after addEvent (index.ts 158-161)
\* returned and before markProcessed (line 176) ran: the calendar keeps the
\* new entry, no ProcessedRecord and no result exist for the event
CrashAfterInsert(in) ==
    /\ phase = "loop"
    /\ idx <= Len(fetched)
    /\ LET r == scanOne(cfg, processed, calendar, nextCal, fetched[idx], in)
       IN /\ r.push[1].insert = 1
          /\ ~r.push[1].calThrew
          /\ r.nextCal <= MaxCalEntries + 1
          /\ calendar' = r.calendar
          /\ nextCal' = r.nextCal
          /\ interrupted' = {[id |-> fetched[idx].id, marker |-> fetched[idx].updated_at,
                              entry |-> r.push[1].calendarEventId]}
    /\ phase' = "idle"
    /\ status' = "insertCrashed"
    /\ UNCHANGED <<proc, db, outstanding, syncFailedAt, preAuth, runs, scanNo, cfg, fetched, idx, results,
                   processed, eventsTable, rerun, api>>

\* scanEvents lines 43-73 of the scan started after that crash: the source
\* returns the events it returned to the interrupted scan
RestartAfterInsert ==
    /\ phase = "idle"
    /\ status = "insertCrashed"
    /\ scanNo < MaxScans
    /\ phase' = "loop"
    /\ status' = "none"
    /\ scanNo' = scanNo + 1
    /\ idx' = 1
    /\ results' = << >>
    /\ eventsTable' = saveEvents(eventsTable, fetched)
    /\ rerun' = FALSE
    /\ api' = NoCall
    /\ preAuth' = Bit(attemptsSync(cfg))
    /\ UNCHANGED <<proc, db, outstanding, syncFailedAt, interrupted, runs, cfg, fetched, processed,
                   calendar, nextCal>>

\* Scans whose calendar lookups succeed and that a crash may interrupt after
\* an insert; the program is restarted with the configuration it had
NextRecover ==
    \/ \E config \in Configs, events \in EventLists :
           /\ status # "insertCrashed"
           /\ scanNo = 0 \/ config = cfg
           /\ StartScan(config, events)
    \/ RestartAfterInsert
    \/ \E in \in ScanInputs(calendar, IF idx <= Len(fetched) THEN fetched[idx] ELSE [title |-> << >>]) :
           /\ idx <= Len(fetched) => LookupSucceeds(calendar, fetched[idx], in.cal)
           /\ ProcessEvent(in)
    \/ FinishScan
    \/ \E in \in ScanInputs(calendar, IF idx <= Len(fetched) THEN fetched[idx] ELSE [title |-> << >>]) :
           /\ idx <= Len(fetched) => LookupSucceeds(calendar, fetched[idx], in.cal)
           /\ CrashAfterInsert(in)

SpecRecover == Init /\ [][NextRecover]_vars

----------------------------------------------------------------------------
(* The scan and daemon commands *)

Commands == {"scan", "daemon"}

\* the process ends: process.exit(code), or nothing left to run (code 0)
Exited(p, code, line) == [p EXCEPT !.state = "exited", !.exitCode = code, !.log = line]

\* the action callback up to its call of scanEvents: loadConfig throws
\* (~loadOk) and the catch block exits with 1; the daemon command exits
\* with 1 when schedule.cron is not configured
RunCommand(command, loadOk, cron, dryRun) ==
    /\ proc.state = "none"
    /\ phase = "idle"
    /\ scanNo = 0
    /\ proc' = IF ~loadOk
               THEN Exited([proc EXCEPT !.command = command], "1",
                           IF command = "scan" THEN "Scan failed" ELSE "Daemon failed")
               ELSE IF command = "daemon" /\ ~cron
               THEN Exited([proc EXCEPT !.command = command], "1", "No cron schedule configured")
               ELSE [proc EXCEPT !.command = command, !.state = "initial", !.before = scanNo,
                                 !.log = IF command = "scan" THEN "Starting scan..."
                                         ELSE "Running initial scan..."]
    /\ cfg' = [DefaultConfig EXCEPT !.dryRun = (command = "scan" /\ dryRun)]
    /\ UNCHANGED <<db, outstanding, syncFailedAt, interrupted, preAuth, runs, phase, status, scanNo,
                   fetched, idx, results, processed, eventsTable, calendar, nextCal, rerun, api>>

\* scanEvents has been called by the command or by the job and has not begun
ScanPending == proc.state \in {"initial", "job"} /\ scanNo = proc.before /\ phase = "idle"

\* scanEvents called by the command or by the job has returned / has thrown
ScanReturned ==
    /\ proc.state \in {"initial", "job"}
    /\ scanNo = proc.before + 1
    /\ phase = "idle"
ScanSucceeded == ScanReturned /\ status = "done"
ScanFailed == ScanReturned /\ status = "threw"

\* After `await scanEvents(...)` returned. scan command: displayResults, the
\* callback ends and so does the process. daemon command, initial scan:
\* displayResults, scheduleJob, the SIGINT handler. Job: the completion log.
ScanReturns ==
    /\ ScanSucceeded
    /\ proc' = IF proc.command = "scan" THEN Exited(proc, "0", "Scan completed")
               ELSE IF proc.state = "initial" THEN [proc EXCEPT !.state = "scheduled"]
               ELSE [proc EXCEPT !.state = "scheduled", !.log = "Scheduled scan completed"]
    /\ UNCHANGED <<db, outstanding, syncFailedAt, interrupted, preAuth, runs, phase, status, scanNo,
                   cfg, fetched, idx, results, processed, eventsTable, calendar, nextCal, rerun, api>>

\* every catch block calling process.exit(1)
ScanThrows_alwaysExits ==
    /\ ScanFailed
    /\ proc' = Exited(proc, "1", "Scan failed")
    /\ UNCHANGED <<db, outstanding, syncFailedAt, interrupted, preAuth, runs, phase, status, scanNo,
                   cfg, fetched, idx, results, processed, eventsTable, calendar, nextCal, rerun, api>>

\* The catch blocks. Job (lines 397-399): the error is logged, the job stays
\* scheduled. Commands (lines 334-337, 410-413): logged, process.exit(1).
ScanThrows ==
    /\ ScanFailed
    /\ proc' = IF proc.state = "job"
               THEN [proc EXCEPT !.state = "scheduled", !.failed = @ + 1,
                                 !.log = "Scheduled scan failed"]
               ELSE Exited(proc, "1", IF proc.command = "scan" THEN "Scan failed"
                                      ELSE "Daemon failed")
    /\ UNCHANGED <<db, outstanding, syncFailedAt, interrupted, preAuth, runs, phase, status, scanNo,
                   cfg, fetched, idx, results, processed, eventsTable, calendar, nextCal, rerun, api>>

\* node-schedule fires the job (line 387) while no scan is running (scans
\* that overlap are SpecOverlap's)
Trigger ==
    /\ proc.state = "scheduled"
    /\ phase = "idle"
    /\ scanNo < ScanLimit
    /\ proc' = [proc EXCEPT !.state = "job", !.before = scanNo, !.fired = @ + 1,
                            !.log = "Running scheduled scan..."]
    /\ UNCHANGED <<db, outstanding, syncFailedAt, interrupted, preAuth, runs, phase, status, scanNo,
                   cfg, fetched, idx, results, processed, eventsTable, calendar, nextCal, rerun, api>>

\* SIGINT once the handler of lines 404-409 is registered: gracefulShutdown,
\* then process.exit(0)
Sigint ==
    /\ proc.state = "scheduled"
    /\ proc' = Exited(proc, "0", "Shutting down daemon...")
    /\ UNCHANGED <<db, outstanding, syncFailedAt, interrupted, preAuth, runs, phase, status, scanNo,
                   cfg, fetched, idx, results, processed, eventsTable, calendar, nextCal, rerun, api>>

NextDaemon ==
    \/ \E command \in Commands, loadOk, cron, dryRun \in BOOLEAN :
           RunCommand(command, loadOk, cron, dryRun)
    \/ \E events \in EventLists : ScanPending /\ StartScan(cfg, events)
    \/ ScanPending /\ FetchFails(cfg)
    \/ \E in \in ScanInputs(calendar, IF idx <= Len(fetched) THEN fetched[idx] ELSE [title |-> << >>]) :
           ProcessEvent(in)
    \/ FinishScan
    \/ ScanReturns
    \/ ScanThrows
    \/ Trigger
    \/ Sigint

SpecDaemon == Init /\ [][NextDaemon]_vars

----------------------------------------------------------------------------
(* Direct calls of the repository and of the calendar client *)

ApiMarkers == {NULL, "", "t1", "t2"}      \* connpassUpdatedAt?: string
ApiCalendarIds == {NULL, "", "c1", "c2"}     \* calendarEventId?: string

MarkProcessedParams ==
    [eventId : EventIds, hasSpeakerOpportunity : BOOLEAN, hasInterestMatch : BOOLEAN,
     interestScore : {NullScore, 0}, calendarEventId : ApiCalendarIds,
     connpassUpdatedAt : ApiMarkers]

\* eventRepo.markProcessed(params); before: the identifier stored before the call
MarkProcessedCall(params) ==
    /\ phase = "idle"
    /\ processed' = markProcessed(processed, params)
    /\ api' = [op |-> "markProcessed", params |-> params,
               before |-> IF params.eventId \in DOMAIN processed
                          THEN processed[params.eventId].calendar_event_id ELSE NULL]
    /\ UNCHANGED <<proc, db, outstanding, syncFailedAt, interrupted, preAuth, runs, phase, status, scanNo, cfg, fetched, idx, results, eventsTable,
                   calendar, nextCal, rerun>>

\* eventRepo.needsReprocessing(eventId, currentUpdatedAt)
NeedsReprocessingCall(eventId, currentUpdatedAt) ==
    /\ phase = "idle"
    /\ api' = [op |-> "needsReprocessing", eventId |-> eventId,
               currentUpdatedAt |-> currentUpdatedAt,
               ret |-> needsReprocessing(processed, eventId, currentUpdatedAt)]
    /\ UNCHANGED <<proc, db, outstanding, syncFailedAt, interrupted, preAuth, runs, phase, status, scanNo, cfg, fetched, idx, results, processed,
                   eventsTable, calendar, nextCal, rerun>>

\* calendarClient.getColorId({hasSpeakerOpportunity, isPopular}), together with
\* the category scanEvents chooses for the same flags (lines 138-145)
GetColorIdCall(hasSpeakerOpportunity, isPopular) ==
    /\ phase = "idle"
    /\ api' = [op |-> "getColorId", hasSpeakerOpportunity |-> hasSpeakerOpportunity,
               isPopular |-> isPopular,
               ret |-> getColorId(cfg, hasSpeakerOpportunity, isPopular),
               category |-> categoryOf(hasSpeakerOpportunity, isPopular)]
    /\ UNCHANGED <<proc, db, outstanding, syncFailedAt, interrupted, preAuth, runs, phase, status, scanNo, cfg, fetched, idx, results, processed,
                   eventsTable, calendar, nextCal, rerun>>

\* calendarClient.upsertEvent(event, {colorId}) on a client configured with
\* google_calendar.enabled = enabled; before: the calendar before the call,
\* found: what findExistingEvent answers during the call
UpsertEventCall(enabled, event, out) ==
    /\ phase = "idle"
    /\ status = "none"
    /\ LET config == [DefaultConfig EXCEPT !.calendar_enabled = enabled]
           colorId == getColorId(config, FALSE,
                                 isPopularEvent(event, config.min_participants))
           r == upsertEvent(config, calendar, nextCal, event, colorId, out)
       IN /\ r.nextCal <= MaxCalEntries + 1
          /\ calendar' = r.calendar
          /\ nextCal' = r.nextCal
          /\ api' = [op |-> "upsertEvent", enabled |-> enabled, event |-> event,
                     before |-> calendar,
                     found |-> findExistingEvent(calendar, event, out),
                     action |-> r.action, calendarEventId |-> r.calendarEventId,
                     threw |-> r.threw,
                     list |-> r.list, insert |-> r.insert, update |-> r.update]
    /\ UNCHANGED <<proc, db, outstanding, syncFailedAt, interrupted, preAuth, runs, phase, status, scanNo, cfg, fetched, idx,
                   results, processed, eventsTable, rerun>>

\* the batches given to saveEvents directly: two identifiers, two versions
\* of every stored column
BatchEvents ==
    {[id |-> i, title |-> TitleGo, accepted |-> 10, updated_at |-> "t1"] @@ ScheduleA :
        i \in {1, 2}}
    \cup
    {[id |-> i, title |-> TitleBook, accepted |-> 50, updated_at |-> "t2"] @@ ScheduleB :
        i \in {1, 2}}

Batches ==
    {l \in UNION {[1..n -> BatchEvents] : n \in 0..2} :
        \A i, j \in DOMAIN l : i # j => l[i].id # l[j].id}

\* eventRepo.saveEvents(events); before: the events table before the call
SaveEventsCall(events, failAt) ==
    /\ phase = "idle"
    /\ LET r == saveEventsTx(eventsTable, events, failAt)
       IN /\ eventsTable' = r.table
          /\ api' = [op |-> "saveEvents", events |-> events, failAt |-> failAt,
                     threw |-> r.threw, before |-> eventsTable]
    /\ UNCHANGED <<proc, db, outstanding, syncFailedAt, interrupted, preAuth, runs, phase, status, scanNo, cfg,
                   fetched, idx, results, processed, calendar, nextCal, rerun>>

NextEvents ==
    \E events \in Batches : \E failAt \in 0..Len(events) : SaveEventsCall(events, failAt)

SpecEvents == Init /\ [][NextEvents]_vars

\* llmMatcher.analyzeEvent(event) with the provider answering llm
AnalyzeEventCall(llm) ==
    /\ phase = "idle"
    /\ LET r == analyzeEvent(DefaultConfig, llm)
       IN api' = [op |-> "analyzeEvent", llm |-> llm, result |-> r.result, threw |-> r.threw]
    /\ UNCHANGED <<proc, db, outstanding, syncFailedAt, interrupted, preAuth, runs, phase, status, scanNo, cfg,
                   fetched, idx, results, processed, eventsTable, calendar, nextCal, rerun>>

\* analyzeSpeakerOpportunity(event)
AnalyzeSpeakerOpportunityCall(event) ==
    /\ phase = "idle"
    /\ api' = [op |-> "analyzeSpeakerOpportunity", event |-> event,
               speaker |-> analyzeSpeakerOpportunity(event.title, event.catch,
                                                    stripHtml(event.description))]
    /\ UNCHANGED <<proc, db, outstanding, syncFailedAt, interrupted, preAuth, runs, phase, status, scanNo, cfg,
                   fetched, idx, results, processed, eventsTable, calendar, nextCal, rerun>>

NextClassify ==
    \/ \E llm \in LLMResponses : AnalyzeEventCall(llm)
    \/ \E event \in SpeakerEvents : AnalyzeSpeakerOpportunityCall(event)

SpecClassify == Init /\ [][NextClassify]_vars

\* one scan whose provider may answer with any of LLMResponses
ScanInputsAnyAnswer(cal, event) ==
    [llm : LLMResponses, auth : BOOLEAN, cal : CalendarOutcomes(cal, event)]

NextScores ==
    \/ \E config \in Configs, events \in EventLists :
           scanNo = 0 /\ StartScan(config, events)
    \/ \E in \in ScanInputsAnyAnswer(calendar,
                    IF idx <= Len(fetched) THEN fetched[idx] ELSE [title |-> << >>]) :
           ProcessEvent(in)
    \/ FinishScan

SpecScores == Init /\ [][NextScores]_vars

\* the actions below change only api
OnlyApiChanges ==
    UNCHANGED <<proc, db, outstanding, syncFailedAt, interrupted, preAuth, runs, phase, status, scanNo,
                cfg, fetched, idx, results, processed, eventsTable, calendar, nextCal, rerun>>

----------------------------------------------------------------------------
(* JavaScript Number arithmetic (IEEE 754 binary64, round to nearest, ties to
   even) for the score of matchKeywords. A positive Number is
   [sig, k]: the integer whose binary digits are sig (least significant
   first, the last digit 1, at most SigBits digits) times 2^(-k); zero has
   sig = << >>. *)

SigBits == 53

\* a + b on binary digit sequences (least significant first)
RECURSIVE BAdd(_, _, _)
BAdd(a, b, carry) ==
    IF a = << >> /\ b = << >>
    THEN IF carry = 1 THEN <<1>> ELSE << >>
    ELSE LET x == IF a = << >> THEN 0 ELSE Head(a)
             y == IF b = << >> THEN 0 ELSE Head(b)
             s == x + y + carry
         IN <<s % 2>> \o BAdd(IF a = << >> THEN a ELSE Tail(a),
                               IF b = << >> THEN b ELSE Tail(b), s \div 2)

\* a * 2^n
BShl(a, n) == [i \in 1..n |-> 0] \o a

\* the integer a digit sequence stands for
RECURSIVE BToInt(_)
BToInt(a) == IF a = << >> THEN 0 ELSE Head(a) + 2 * BToInt(Tail(a))

\* the exact value digits * 2^(-k), plus a remainder below the last digit
\* (half: its first digit; sticky: something non-zero after that), rounded
\* to SigBits significant digits
RoundToNearestEven(digits, k, half, sticky) ==
    LET d == IF Len(digits) > SigBits THEN Len(digits) - SigBits ELSE 0
        kept == SubSeq(digits, d + 1, Len(digits))
        guard == IF d > 0 THEN digits[d] ELSE half
        rest == IF d > 0
                THEN sticky \/ half = 1 \/ \E i \in 1..(d - 1) : digits[i] = 1
                ELSE sticky
        up == guard = 1 /\ (rest \/ kept[1] = 1)
        rounded == IF up THEN BAdd(kept, <<1>>, 0) ELSE kept
    IN IF Len(rounded) > SigBits /\ Len(kept) = SigBits
       THEN [sig |-> Tail(rounded), k |-> k - d - 1]
       ELSE [sig |-> rounded, k |-> k - d]

\* the binary digits of r / n (0 < r < n) from its first 1 on: SigBits digits
\* (most significant first), the position of the last one, the remainder
RECURSIVE Expand(_, _, _, _)
Expand(r, n, digits, pos) ==
    IF Len(digits) = SigBits THEN [digits |-> digits, k |-> pos, rem |-> r]
    ELSE LET b == IF 2 * r >= n THEN 1 ELSE 0
         IN Expand(2 * r - b * n, n,
                   IF digits = << >> /\ b = 0 THEN digits ELSE Append(digits, b), pos + 1)

Reverse(s) == [i \in DOMAIN s |-> s[Len(s) + 1 - i]]

\* m / n for integers 0 <= m <= n, n > 0
NumberDivide(m, n) ==
    IF m = 0 THEN [sig |-> << >>, k |-> 0]
    ELSE IF m = n THEN [sig |-> <<1>>, k |-> 0]
    ELSE LET e == Expand(m, n, << >>, 0)
         IN RoundToNearestEven(Reverse(e.digits), e.k,
                               IF 2 * e.rem >= n THEN 1 ELSE 0,
                               2 * e.rem # n /\ e.rem # 0)

\* x * 100 (100 = 64 + 32 + 4)
NumberTimes100(x) ==
    IF x.sig = << >> THEN x
    ELSE RoundToNearestEven(BAdd(BAdd(BShl(x.sig, 6), BShl(x.sig, 5), 0), BShl(x.sig, 2), 0),
                            x.k, 0, FALSE)

\* Math.round for 0 <= x < 2^31: the nearest integer, a tie going up
MathRound(x) ==
    IF x.sig = << >> THEN 0
    ELSE IF x.k <= 0 THEN BToInt(BShl(x.sig, 0 - x.k))
    ELSE IF x.k > Len(x.sig) THEN 0
    ELSE BToInt(SubSeq(x.sig, x.k + 1, Len(x.sig))) + x.sig[x.k]

----------------------------------------------------------------------------
(* Keyword matcher: matchKeywords *)

KwGO == <<"G", "O">>
KwLt == <<"l", "t">>
KwCfp == <<"c", "f", "p">>
KwZz == <<"z", "z">>

\* interests.keywords: every list of up to two of the keywords above, and
\* lists of 3 and of 40 keywords of which the first m occur in every title
KeywordLists ==
    UNION {[1..n -> {KwGO, KwLt, KwCfp, KwZz}] : n \in 0..2}
    \cup UNION {{[i \in 1..n |-> IF i <= m THEN KwGO ELSE KwZz] : m \in 0..n} : n \in {3, 40}}

\* lines 38-49: the loop collecting matchedKeywords
RECURSIVE matchedKeywords(_, _, _, _)
matchedKeywords(title, catchText, description, keywords) ==
    IF keywords = << >> THEN << >>
    ELSE LET kw == ToLowerCase(Head(keywords))
             hit == \/ Includes(title, kw)
                    \/ Includes(catchText, kw)
                    \/ Includes(description, kw)
         IN (IF hit THEN <<Head(keywords)>> ELSE << >>)
            \o matchedKeywords(title, catchText, description, Tail(keywords))

\* matchKeywords (lines 20-71); the score is
\* Math.round((matchedKeywords.length / keywords.length) * 100)
matchKeywords(event, keywords) ==
    IF Len(keywords) = 0
    THEN [is_match |-> FALSE, score |-> 0, keyword_matches |-> << >>]
    ELSE LET matched == matchedKeywords(ToLowerCase(event.title), ToLowerCase(event.catch),
                                        ToLowerCase(stripHtml(event.description)), keywords)
         IN [is_match |-> Len(matched) > 0,
             score |-> MathRound(NumberTimes100(NumberDivide(Len(matched), Len(keywords)))),
             keyword_matches |-> matched]

\* matchKeywords(event, config) with config.interests.keywords = keywords
MatchKeywordsCall(event, keywords) ==
    /\ phase = "idle"
    /\ api = NoCall
    /\ api' = [op |-> "matchKeywords", event |-> event, keywords |-> keywords,
               result |-> matchKeywords(event, keywords)]
    /\ OnlyApiChanges

NextKeywords ==
    \E event \in SpeakerEvents, keywords \in KeywordLists : MatchKeywordsCall(event, keywords)

SpecKeywords == Init /\ [][NextKeywords]_vars

\* getEvents: `const count = 100` and the cap of `if (start > 500)`
Count == 100
MaxStart_sixPages == 5 * Count + Count
MaxStart == 500

\* connpass.months_ahead: the number of periods getTargetMonths returns
MonthsAhead == {1, 2}
\* results_returned of a page: an empty page, a short page, a full page
ResultsReturned == {0, 50, 100}

\* getEvents lines 169-180: the first period's first page is requested.
\* log: the page requests answered so far, with results_returned;
\* total: allEvents.length
GetEventsCall(months) ==
    /\ phase = "idle"
    /\ api.op # "getEvents"
    /\ api' = [op |-> "getEvents", months |-> months, state |-> "fetching",
               period |-> 1, start |-> 1, log |-> << >>, total |-> 0, capped |-> {}]
    /\ OnlyApiChanges

\* the while loop after the period's loop ended: next period, or lines 207-224
nextPeriod(call) ==
    IF call.period < call.months
    THEN [call EXCEPT !.period = @ + 1, !.start = 1]
    ELSE [call EXCEPT !.state = "returned"]

\* lines 182-204: fetchEvents resolves with one page
GetEventsPage(returned) ==
    /\ api.op = "getEvents"
    /\ api.state = "fetching"
    /\ LET call == [api EXCEPT !.log = Append(@, [period |-> api.period, start |-> api.start,
                                                  results_returned |-> returned]),
                               !.total = @ + returned]
       IN api' = IF returned < Count
                 THEN nextPeriod(call)
                 ELSE IF call.start + Count > MaxStart
                 THEN nextPeriod([call EXCEPT !.capped = @ \cup {call.period}])
                 ELSE [call EXCEPT !.start = @ + Count]
    /\ OnlyApiChanges

\* fetchEvents rejects (network error, or `!res.ok`, client.ts 53-55)
GetEventsPageFails ==
    /\ api.op = "getEvents"
    /\ api.state = "fetching"
    /\ api' = [api EXCEPT !.state = "threw"]
    /\ OnlyApiChanges

NextPages ==
    \/ \E months \in MonthsAhead : GetEventsCall(months)
    \/ \E returned \in ResultsReturned : GetEventsPage(returned)
    \/ GetEventsPageFails

SpecPages == Init /\ [][NextPages]_vars

----------------------------------------------------------------------------
(* The SQLite schema: initializeDatabase and the statements EventRepository
   prepares *)

Absent == {}          \* the table does not exist

\* the columns of CREATE TABLE IF NOT EXISTS events / processed_events
EventsSchema ==
    {"event_id", "title", "event_url", "started_at", "ended_at", "place", "address",
     "is_online", "is_tokyo", "created_at", "updated_at"}

ProcessedEventsSchema ==
    {"event_id", "has_speaker_opportunity", "has_interest_match", "interest_score",
     "calendar_event_id", "processed_at"}

\* the <<table, column>> pairs each prepared statement names
Statements ==
    [stmtUpsertEvent |->
        {<<"events", c>> : c \in {"event_id", "title", "event_url", "started_at", "ended_at",
                                   "place", "address", "is_online", "is_tokyo",
                                   "connpass_updated_at", "updated_at"}},
     stmtGetProcessed |-> {<<"processed_events", "event_id">>},
     stmtMarkProcessed |->
        {<<"processed_events", c>> : c \in {"event_id", "has_speaker_opportunity",
                                             "has_interest_match", "interest_score",
                                             "calendar_event_id", "connpass_updated_at",
                                             "processed_at"}},
     stmtGetUnprocessedIds |-> {<<"events", "event_id">>, <<"processed_events", "event_id">>}]

\* the order of the db.prepare calls in the constructor
PrepareOrder ==
    <<"stmtUpsertEvent", "stmtGetProcessed", "stmtMarkProcessed", "stmtGetUnprocessedIds">>

\* db.prepare compiles the statement: it throws when a table or column the
\* statement names does not exist
prepares(tables, stmt) ==
    \A tc \in Statements[stmt] : tables[tc[1]] # Absent /\ tc[2] \in tables[tc[1]]

\* CREATE TABLE IF NOT EXISTS: an existing table is left as it is
createTableIfNotExists(existing, columns) ==
    IF existing = Absent THEN columns ELSE existing

\* the file initializeDatabase finds: no table yet, or the tables of an
\* earlier run, with or without the column connpass_updated_at
StoredTables ==
    [events : {Absent, EventsSchema, EventsSchema \cup {"connpass_updated_at"}},
     processed_events : {Absent, ProcessedEventsSchema,
                         ProcessedEventsSchema \cup {"connpass_updated_at"}}]

\* initializeDatabase line 18: new Database(dbPath)
OpenDatabase(tables) ==
    /\ db.state = "closed"
    /\ db' = [state |-> "opened", tables |-> tables,
              fresh |-> (tables.events = Absent /\ tables.processed_events = Absent),
              repo |-> "none", failed |-> NULL]
    /\ UNCHANGED <<proc, outstanding, syncFailedAt, interrupted, preAuth, runs, phase, status, scanNo,
                   cfg, fetched, idx, results, processed, eventsTable, calendar, nextCal,
                   rerun, api>>

\* initializeDatabase lines 24-54
InitializeDatabase ==
    /\ db.state = "opened"
    /\ db' = [db EXCEPT
                 !.state = "initialized",
                 !.tables = [events |-> createTableIfNotExists(db.tables.events, EventsSchema),
                             processed_events |->
                                 createTableIfNotExists(db.tables.processed_events,
                                                        ProcessedEventsSchema)]]
    /\ UNCHANGED <<proc, outstanding, syncFailedAt, interrupted, preAuth, runs, phase, status, scanNo,
                   cfg, fetched, idx, results, processed, eventsTable, calendar, nextCal,
                   rerun, api>>

\* new EventRepository(db): the four db.prepare calls; the first that fails
\* throws out of the constructor
NewEventRepository ==
    /\ db.state = "initialized"
    /\ db.repo = "none"
    /\ LET bad == {k \in DOMAIN PrepareOrder : ~prepares(db.tables, PrepareOrder[k])}
       IN db' = IF bad = {}
                THEN [db EXCEPT !.repo = "ready"]
                ELSE [db EXCEPT !.repo = "threw",
                                !.failed = PrepareOrder[CHOOSE k \in bad : \A j \in bad : k <= j]]
    /\ UNCHANGED <<proc, outstanding, syncFailedAt, interrupted, preAuth, runs, phase, status, scanNo,
                   cfg, fetched, idx, results, processed, eventsTable, calendar, nextCal,
                   rerun, api>>

\* eventRepo.getUnprocessedEventIds(): the left anti-join of stmtGetUnprocessedIds
GetUnprocessedEventIdsCall ==
    /\ phase = "idle"
    /\ api' = [op |-> "getUnprocessedEventIds",
               ids |-> DOMAIN eventsTable \ DOMAIN processed]
    /\ OnlyApiChanges

\* the repository's methods are callable once the constructor returned
NextSchema ==
    \/ \E tables \in StoredTables : OpenDatabase(tables)
    \/ InitializeDatabase
    \/ NewEventRepository
    \/ /\ db.state = "initialized"
       /\ db.repo = "ready"
       /\ \/ \E events \in Batches : SaveEventsCall(events, 0)
          \/ \E params \in MarkProcessedParams : MarkProcessedCall(params)
          \/ \E eventId \in EventIds, m \in ApiMarkers \ {NULL} :
                 NeedsReprocessingCall(eventId, m)
          \/ GetUnprocessedEventIdsCall

SpecSchema == Init /\ [][NextSchema]_vars

NextApi ==
    \/ \E params \in MarkProcessedParams : MarkProcessedCall(params)
    \/ \E eventId \in EventIds, m \in ApiMarkers \ {NULL} : NeedsReprocessingCall(eventId, m)
    \/ \E s, p \in BOOLEAN : GetColorIdCall(s, p)

SpecApi == Init /\ [][NextApi]_vars

\* The calendar client called directly, then by one scanEvents call
NextCalendar ==
    \/ \E enabled \in BOOLEAN, event \in Events :
           \E out \in CalendarOutcomes(calendar, event) : UpsertEventCall(enabled, event, out)
    \/ \E config \in Configs, events \in EventLists :
           scanNo = 0 /\ StartScan(config, events)
    \/ \E in \in ScanInputs(calendar, IF idx <= Len(fetched) THEN fetched[idx] ELSE [title |-> << >>]) :
           ProcessEvent(in)
    \/ FinishScan

SpecCalendar == Init /\ [][NextCalendar]_vars

----------------------------------------------------------------------------
(* Overlapping invocations of scanEvents by the daemon: one step per awaited
   call, the synchronous code after it included. Both invocations share the
   database file and the remote calendar, and find the same event in the
   feed. *)

OvUnchanged == UNCHANGED <<proc, db, phase, status, scanNo, cfg, fetched, idx, results, rerun, api,
                           preAuth, syncFailedAt, interrupted, outstanding>>

\* the markProcessed call of lines 176-184 made by invocation `run`
OvMark(run, calendarEventId, syncThrew) ==
    markAfterSync(processed,
                  [eventId |-> run.event.id,
                   hasSpeakerOpportunity |-> run.speaker,
                   hasInterestMatch |-> run.interest.is_match,
                   interestScore |-> run.interest.score,
                   calendarEventId |-> IF Truthy(calendarEventId) THEN calendarEventId ELSE NULL,
                   connpassUpdatedAt |-> run.event.updated_at], syncThrew)

\* lines 66-118: getEvents resolves with <<event>>, saveEvents, then the loop
\* up to its first await
OvFetch(p, event) ==
    /\ runs[p].pc = "idle"
    /\ \A q \in Runs : runs[q].pc # "idle" => runs[q].event = event
    /\ eventsTable' = saveEvents(eventsTable, <<event>>)
    /\ LET isProc == isProcessed(processed, event.id)
           needs == isProc /\ needsReprocessing(processed, event.id, event.updated_at)
           existingCal == IF isProc
                          THEN getProcessedEvent(processed, event.id).calendar_event_id
                          ELSE NULL
           isPopular == isPopularEvent(event, cfg.min_participants)
           run == [IdleRun EXCEPT !.event = event, !.existingCal = existingCal]
       IN runs' = [runs EXCEPT ![p] =
              IF isProc /\ ~needs
              THEN [run EXCEPT !.pc = "done", !.action = "already_processed"]
              ELSE IF shouldExclude(event, cfg.exclude_keywords)
              THEN [run EXCEPT !.pc = "done", !.action = "excluded"]
              ELSE IF isPopular
              THEN [run EXCEPT !.pc = "auth", !.popular = TRUE,
                               !.interest = [is_match |-> TRUE, score |-> PopularScore]]
              ELSE [run EXCEPT !.pc = "llm"]]
    /\ UNCHANGED <<processed, calendar, nextCal>>
    /\ OvUnchanged

\* lines 118-158: analyzeEvent resolves; the no-match branch records and ends
OvLlm(p, llm) ==
    /\ runs[p].pc = "llm"
    /\ LET verdict == analyzeEvent(cfg, llm).result
           run == [runs[p] EXCEPT !.interest = verdict.interest,
                                  !.speaker = verdict.speaker.has_opportunity]
       IN IF isNoMatch(run.interest.is_match, run.speaker)
          THEN /\ processed' = markProcessed(processed,
                                   [eventId |-> run.event.id,
                                    hasSpeakerOpportunity |-> FALSE,
                                    hasInterestMatch |-> FALSE,
                                    interestScore |-> run.interest.score,
                                    calendarEventId |-> NULL,
                                    connpassUpdatedAt |-> run.event.updated_at])
               /\ runs' = [runs EXCEPT ![p] = [run EXCEPT !.pc = "done", !.action = "no_match"]]
          ELSE /\ processed' = processed
               /\ runs' = [runs EXCEPT ![p] = [run EXCEPT !.pc = "auth"]]
    /\ UNCHANGED <<eventsTable, calendar, nextCal>>
    /\ OvUnchanged

\* lines 158-160: isAuthenticated resolves; false leaves "skipped" and records
OvAuth(p, auth) ==
    /\ runs[p].pc = "auth"
    /\ attemptsSync(cfg)
    /\ IF auth
       THEN /\ runs' = [runs EXCEPT ![p].pc = "list"]
            /\ processed' = processed
       ELSE /\ runs' = [runs EXCEPT ![p].pc = "done", ![p].action = "skipped"]
            /\ processed' = OvMark(runs[p], runs[p].existingCal, FALSE)
    /\ UNCHANGED <<eventsTable, calendar, nextCal>>
    /\ OvUnchanged

\* upsertEvent line 489: findExistingEvent resolves; cleanLookup: events.list
\* answered and returned the matching entry if the calendar holds one
OvList(p, out) ==
    /\ runs[p].pc = "list"
    /\ runs' = [runs EXCEPT
                  ![p].pc = "write",
                  ![p].existingEventId = findExistingEvent(calendar, runs[p].event, out),
                  ![p].cleanLookup =
                      /\ out.list = "ok"
                      /\ ExistingMatches(calendar, runs[p].event) # {} => out.pick # NULL]
    /\ UNCHANGED <<processed, eventsTable, calendar, nextCal>>
    /\ OvUnchanged

\* upsertEvent lines 491-500 and scanEvents lines 161-208: the write resolves
\* or throws, then markProcessed and results.push
OvWrite(p, out) ==
    /\ runs[p].pc = "write"
    /\ LET run == runs[p]
           colorId == getColorId(cfg, run.speaker, run.popular)
           w == writeEvent(calendar, nextCal, run.event, colorId, run.existingEventId, out)
           calendarEventId == IF w.threw THEN run.existingCal ELSE w.calendarEventId
           calendarAction == IF w.threw THEN "skipped" ELSE w.action
       IN /\ w.nextCal <= MaxCalEntries + 1
          /\ calendar' = w.calendar
          /\ nextCal' = w.nextCal
          /\ processed' = OvMark(run, calendarEventId, w.threw)
          /\ runs' = [runs EXCEPT ![p].pc = "done",
                                  ![p].action = resultAction(calendarAction)]
    /\ UNCHANGED eventsTable
    /\ OvUnchanged

NextOverlap ==
    \E p \in Runs :
        \/ \E event \in Events : OvFetch(p, event)
        \/ \E llm \in LLMOutcomes : OvLlm(p, llm)
        \/ \E auth \in BOOLEAN : OvAuth(p, auth)
        \/ \E out \in (IF runs[p].pc = "list"
                       THEN CalendarOutcomes(calendar, runs[p].event) ELSE {}) : OvList(p, out)
        \/ \E out \in (IF runs[p].pc = "write"
                       THEN CalendarOutcomes(calendar, runs[p].event) ELSE {}) : OvWrite(p, out)

SpecOverlap == Init /\ [][NextOverlap]_vars

----------------------------------------------------------------------------
(* One scanEvents invocation, one step per awaited remote call. A step is
   the settling of the call the scan is suspended on, the synchronous code
   that follows, and the issuing of the next call. *)

\* llm.provider: AnthropicProvider, and OpenAIProvider for the providers
\* whose generateText calls the SDK / fetch directly (openai, google, ollama,
\* openrouter)
Providers == {"anthropic", "openai"}

\* maxConcurrent of the Bottleneck instances
maxConcurrent == [claude |-> 1, connpass |-> 1, googleCalendar |-> 2]

\* the limiter whose schedule() wraps the remote call of the given kind;
\* NULL: the call is made directly
limiterOf(config, kind) ==
    CASE kind = "fetch" -> "connpass"
      [] kind = "llm" -> IF config.llm_provider = "anthropic" THEN "claude" ELSE NULL
      [] kind \in {"list", "insert", "update"} -> "googleCalendar"
      [] kind = "auth" -> NULL

Call(config, kind, i) == [kind |-> kind, event |-> i, limiter |-> limiterOf(config, kind)]

issue(outs, call) == outs \cup {call}

\* a call whose promise is not awaited: the caller goes on while it is in flight
settle_notAwaited(outs, call) == outs

\* `await`: the caller resumes when the call has settled
settle(outs, call) == outs \ {call}

\* Bottleneck starts a scheduled job only while fewer than maxConcurrent of
\* its jobs are running
canStart(outs, call) ==
    IF call.limiter = NULL THEN TRUE
    ELSE Cardinality({c \in outs : c.limiter = call.limiter}) < maxConcurrent[call.limiter]

SeqIds == {1, 2}
SeqEvents ==
    {core @@ ScheduleA :
        core \in [id : SeqIds, title : {TitleGo, TitleBook}, accepted : Accepted,
                  updated_at : {"t1"}]}

SeqConfigs ==
    {[DefaultConfig EXCEPT !.dryRun = d, !.llm_provider = p, !.exclude_keywords = <<KwBook>>] :
        d \in BOOLEAN, p \in Providers}

\* getEvents returning allEvents as collected
addPage_keepAll(collected, page) == collected \o page

\* getEvents line 210: allEvents is a Map keyed by id; a later page replaces
\* the value of an id already present and keeps its position
addPage(collected, page) ==
    IF page = << >> THEN collected
    ELSE IF \E i \in DOMAIN collected : collected[i].id = page[1].id
    THEN [i \in DOMAIN collected |->
             IF collected[i].id = page[1].id THEN page[1] ELSE collected[i]]
    ELSE collected \o page

SeqState(run, tbl, res, i, outs) ==
    [run |-> run, processed |-> tbl, results |-> res, idx |-> i, outstanding |-> outs]

\* lines 176-208: markProcessed, results.push, and on to the next event
seqRecord(run, calendarEventId, calendarAction, syncThrew, outs) ==
    SeqState([run EXCEPT !.pc = "head"],
             OvMark(run, calendarEventId, syncThrew),
             Append(results,
                    ScanResult(run.event, resultAction(calendarAction), TRUE, run.interest,
                               run.speaker, categoryOf(run.speaker, run.popular),
                               getColorId(cfg, run.speaker, run.popular), calendarEventId,
                               [run.calls EXCEPT !.calThrew = syncThrew])),
             idx + 1, outs)

\* lines 135-158: a matching event; isAuthenticated is called unless dry-run
\* or the calendar is disabled
seqSync(run, outs) ==
    IF attemptsSync(cfg)
    THEN SeqState([run EXCEPT !.pc = "auth", !.calls.auth = 1], processed, results, idx,
                  issue(outs, Call(cfg, "auth", idx)))
    ELSE seqRecord(run, run.existingCal, "skipped", FALSE, outs)

SeqApply(s) ==
    /\ \A c \in s.outstanding \ outstanding : canStart(s.outstanding \ {c}, c)
    /\ runs' = [runs EXCEPT ![1] = s.run]
    /\ processed' = s.processed
    /\ results' = s.results
    /\ idx' = s.idx
    /\ outstanding' = s.outstanding

\* lines 43-58: the clients are built; the first awaited call is issued
SeqStart(config) ==
    /\ phase = "idle"
    /\ scanNo < MaxScans
    /\ phase' = "start"
    /\ status' = "none"
    /\ scanNo' = scanNo + 1
    /\ cfg' = config
    /\ fetched' = << >>
    /\ rerun' = FALSE
    /\ preAuth' = Bit(attemptsSync(config))
    /\ SeqApply(SeqState([IdleRun EXCEPT !.pc = IF attemptsSync(config) THEN "preauth" ELSE "fetch"],
                         processed, << >>, 1,
                         issue(outstanding,
                               Call(config, IF attemptsSync(config) THEN "auth" ELSE "fetch", 0))))
    /\ UNCHANGED <<proc, db, eventsTable, calendar, nextCal, api, syncFailedAt, interrupted>>

\* lines 58-66: isAuthenticated settles (its answer is only logged);
\* getEvents requests its first page
SeqPreAuth ==
    /\ phase = "start"
    /\ runs[1].pc = "preauth"
    /\ SeqApply(SeqState([runs[1] EXCEPT !.pc = "fetch"], processed, results, idx,
                         issue(settle(outstanding, Call(cfg, "auth", 0)),
                               Call(cfg, "fetch", 0))))
    /\ UNCHANGED <<proc, db, phase, status, scanNo, cfg, fetched, eventsTable, calendar, nextCal, rerun,
                   api, preAuth, syncFailedAt, interrupted>>

\* getEvents (client.ts 169-225): a page request settles with the event of
\* that page, if any; the next page is requested, or getEvents returns and
\* saveEvents stores the events (lines 66-73)
SeqFetchPage(page) ==
    /\ phase = "start"
    /\ runs[1].pc = "fetch"
    /\ LET collected == addPage(fetched, page)
           outs == settle(outstanding, Call(cfg, "fetch", 0))
           more == runs[1].page < Cardinality(SeqIds)
       IN /\ fetched' = collected
          /\ IF more
             THEN /\ SeqApply(SeqState([runs[1] EXCEPT !.page = @ + 1, !.allEvents = @ \o page],
                                       processed, results, idx,
                                       issue(outs, Call(cfg, "fetch", 0))))
                  /\ UNCHANGED <<phase, eventsTable>>
             ELSE /\ SeqApply(SeqState([runs[1] EXCEPT !.pc = "head", !.allEvents = @ \o page],
                                       processed, results, idx, outs))
                  /\ phase' = "loop"
                  /\ eventsTable' = saveEvents(eventsTable, collected)
    /\ UNCHANGED <<proc, db, status, scanNo, cfg, calendar, nextCal, rerun, api, preAuth, syncFailedAt,
                   interrupted>>

\* lines 76-118: the head of one iteration, up to its first awaited call
SeqHead ==
    /\ phase = "loop"
    /\ runs[1].pc = "head"
    /\ idx <= Len(fetched)
    /\ LET event == fetched[idx]
           isProc == isProcessed(processed, event.id)
           needs == isProc /\ needsReprocessing(processed, event.id, event.updated_at)
           existingCal == IF isProc
                          THEN getProcessedEvent(processed, event.id).calendar_event_id
                          ELSE NULL
           run == [IdleRun EXCEPT !.pc = "head", !.event = event, !.existingCal = existingCal,
                                  !.allEvents = runs[1].allEvents]
       IN IF isProc /\ ~needs
          THEN SeqApply(SeqState(run, processed,
                                 Append(results, Unclassified(event, "already_processed")),
                                 idx + 1, outstanding))
          ELSE IF shouldExclude(event, cfg.exclude_keywords)
          THEN SeqApply(SeqState(run, processed,
                                 Append(results, Unclassified(event, "excluded")),
                                 idx + 1, outstanding))
          ELSE IF isPopularEvent(event, cfg.min_participants)
          THEN SeqApply(seqSync([run EXCEPT !.popular = TRUE,
                                            !.interest = [is_match |-> TRUE,
                                                          score |-> PopularScore]],
                                outstanding))
          ELSE SeqApply(SeqState([run EXCEPT !.pc = "llm"], processed, results, idx,
                                 IF cfg.llm_enabled
                                 THEN issue(outstanding, Call(cfg, "llm", idx))
                                 ELSE outstanding))
    /\ UNCHANGED <<proc, db, phase, status, scanNo, cfg, fetched, eventsTable, calendar, nextCal, rerun,
                   api, preAuth, syncFailedAt, interrupted>>

\* lines 117-133: analyzeEvent settles
SeqLlm(llm) ==
    /\ phase = "loop"
    /\ runs[1].pc = "llm"
    /\ LET a == analyzeEvent(cfg, llm)
           outs == settle(outstanding, Call(cfg, "llm", idx))
           run == [runs[1] EXCEPT !.interest = a.result.interest,
                                  !.speaker = a.result.speaker.has_opportunity,
                                  !.calls.llm = a.calls, !.calls.llmThrew = a.threw]
       IN IF isNoMatch(run.interest.is_match, run.speaker)
          THEN SeqApply(SeqState([run EXCEPT !.pc = "head"],
                                 markProcessed(processed,
                                     [eventId |-> run.event.id,
                                      hasSpeakerOpportunity |-> FALSE,
                                      hasInterestMatch |-> FALSE,
                                      interestScore |-> run.interest.score,
                                      calendarEventId |-> NULL,
                                      connpassUpdatedAt |-> run.event.updated_at]),
                                 Append(results,
                                        ScanResult(run.event, "no_match", TRUE, run.interest,
                                                   run.speaker, NULL, NULL, NULL, run.calls)),
                                 idx + 1, outs))
          ELSE SeqApply(seqSync(run, outs))
    /\ UNCHANGED <<proc, db, phase, status, scanNo, cfg, fetched, eventsTable, calendar, nextCal, rerun,
                   api, preAuth, syncFailedAt, interrupted>>

\* lines 158-160: isAuthenticated settles; upsertEvent starts with
\* findExistingEvent's events.list
SeqAuth(auth) ==
    /\ phase = "loop"
    /\ runs[1].pc = "auth"
    /\ LET outs == settle(outstanding, Call(cfg, "auth", idx))
       IN IF auth
          THEN SeqApply(SeqState([runs[1] EXCEPT !.pc = "list", !.calls.isAuth = TRUE,
                                                 !.calls.list = 1],
                                 processed, results, idx,
                                 issue(outs, Call(cfg, "list", idx))))
          ELSE SeqApply(seqRecord(runs[1], runs[1].existingCal, "skipped", FALSE, outs))
    /\ UNCHANGED <<proc, db, phase, status, scanNo, cfg, fetched, eventsTable, calendar, nextCal, rerun,
                   api, preAuth, syncFailedAt, interrupted>>

\* upsertEvent lines 489-500: events.list settles; events.update or
\* events.insert is issued
SeqList(out) ==
    /\ phase = "loop"
    /\ runs[1].pc = "list"
    /\ LET existing == findExistingEvent(calendar, runs[1].event, out)
       IN SeqApply(SeqState([runs[1] EXCEPT !.pc = "write", !.existingEventId = existing],
                            processed, results, idx,
                            issue(settle(outstanding, Call(cfg, "list", idx)),
                                  Call(cfg, IF Truthy(existing) THEN "update" ELSE "insert",
                                       idx))))
    /\ UNCHANGED <<proc, db, phase, status, scanNo, cfg, fetched, eventsTable, calendar, nextCal, rerun,
                   api, preAuth, syncFailedAt, interrupted>>

\* upsertEvent returns or throws; lines 161-208
SeqWrite(out) ==
    /\ phase = "loop"
    /\ runs[1].pc = "write"
    /\ LET run == runs[1]
           kind == IF Truthy(run.existingEventId) THEN "update" ELSE "insert"
           w == writeEvent(calendar, nextCal, run.event,
                           getColorId(cfg, run.speaker, run.popular), run.existingEventId, out)
           calendarEventId == IF w.threw THEN run.existingCal ELSE w.calendarEventId
           calendarAction == IF w.threw THEN "skipped" ELSE w.action
       IN /\ w.nextCal <= MaxCalEntries + 1
          /\ calendar' = w.calendar
          /\ nextCal' = w.nextCal
          /\ SeqApply(seqRecord([run EXCEPT !.calls.insert = w.insert,
                                            !.calls.update = w.update],
                                calendarEventId, calendarAction, w.threw,
                                settle(outstanding, Call(cfg, kind, idx))))
    /\ UNCHANGED <<proc, db, phase, status, scanNo, cfg, fetched, eventsTable, rerun, api, preAuth,
                   syncFailedAt, interrupted>>

\* lines 210-211
SeqFinish ==
    /\ phase = "loop"
    /\ runs[1].pc = "head"
    /\ idx > Len(fetched)
    /\ phase' = "idle"
    /\ status' = "done"
    /\ runs' = [runs EXCEPT ![1].pc = "done"]
    /\ UNCHANGED <<proc, db, scanNo, cfg, fetched, idx, results, processed, eventsTable, calendar,
                   nextCal, rerun, api, preAuth, syncFailedAt, interrupted, outstanding>>

NextSeq ==
    \/ \E config \in SeqConfigs : (scanNo = 0 \/ config = cfg) /\ SeqStart(config)
    \/ SeqPreAuth
    \/ \E page \in {<< >>} \cup {<<e>> : e \in SeqEvents} : SeqFetchPage(page)
    \/ SeqHead
    \/ \E llm \in LLMOutcomes : SeqLlm(llm)
    \/ \E auth \in BOOLEAN : SeqAuth(auth)
    \/ \E out \in (IF runs[1].pc = "list"
                   THEN CalendarOutcomes(calendar, runs[1].event) ELSE {}) : SeqList(out)
    \/ \E out \in (IF runs[1].pc = "write"
                   THEN CalendarOutcomes(calendar, runs[1].event) ELSE {}) : SeqWrite(out)
    \/ SeqFinish

SpecSeq == Init /\ [][NextSeq]_vars

----------------------------------------------------------------------------
(* Properties *)

Done == phase = "idle" /\ status = "done"
Seen == 1..Len(results)
Reconciled == {"registered", "updated", "skipped"}
TerminalActions == {"already_processed", "excluded", "no_match", "registered", "updated", "skipped"}
CalendarWrites(r) == r.insert + r.update
CalendarCalls(r) == r.list + r.insert + r.update
PopularAt(i) == fetched[i].accepted >= cfg.min_participants
ExcludedTitleAt(i) ==
    \E k \in DOMAIN cfg.exclude_keywords :
        Includes(ToLowerCase(fetched[i].title), ToLowerCase(cfg.exclude_keywords[k]))
UnchangedAt(i) ==
    /\ fetched[i].id \in DOMAIN processed
    /\ processed[fetched[i].id].connpass_updated_at = fetched[i].updated_at

\* C1: a scan run after a completed scan, with the same fetched events (same
\* titles and updated_at) and the same configuration, issues no calendar
\* insert and no calendar update.
C1_RescanWritesNothing ==
    rerun => \A i \in Seen : CalendarWrites(results[i]) = 0

\* the rescan has completed for an event that an earlier scan registered
C1_Witness ==
    /\ rerun /\ Done /\ Len(results) = 1
    /\ results[1].action = "already_processed"
    /\ processed[results[1].id].calendar_event_id # NULL

\* C2: in a scan that does not abort every fetched event receives exactly one
\* result, in fetch order, and its action is one of the six terminal actions.
C2_OneResultPerEvent ==
    /\ phase = "loop" => Len(results) = idx - 1
    /\ Done => Len(results) = Len(fetched)
    /\ \A i \in Seen :
          /\ i <= Len(fetched)
          /\ results[i].id = fetched[i].id
          /\ results[i].action \in TerminalActions

\* a completed scan whose event went through reconciliation without a write
C2_Witness ==
    Done /\ Len(fetched) = 1 /\ Len(results) = 1 /\ results[1].action = "skipped"

\* C3 as claimed: an event whose title contains an exclude-keyword gets the
\* action "excluded" whatever its processed state, with no LLM and no calendar call.
C3_Claimed ==
    \A i \in Seen :
        ExcludedTitleAt(i) =>
            /\ results[i].action = "excluded"
            /\ results[i].llm = 0
            /\ CalendarCalls(results[i]) = 0

\* C3 amended: an event whose title contains an exclude-keyword
\* (case-insensitively) gets the action "excluded", unless it has a
\* ProcessedRecord whose marker equals its updated_at, then "already_processed";
\* in both cases no LLM and no calendar call is made for it.
C3_ExcludedUnlessProcessed ==
    \A i \in Seen :
        ExcludedTitleAt(i) =>
            /\ results[i].action = IF UnchangedAt(i) THEN "already_processed" ELSE "excluded"
            /\ results[i].llm = 0
            /\ CalendarCalls(results[i]) = 0

\* a processed event whose marker changed is excluded by keyword although it is popular
C3_Witness ==
    \E i \in Seen :
        /\ ExcludedTitleAt(i) /\ PopularAt(i)
        /\ results[i].action = "excluded"
        /\ fetched[i].id \in DOMAIN processed

\* C4: after a scan gives an event the action "excluded", a ProcessedRecord
\* of that event exists with speaker-opportunity false and interest-match false.
C4_ExcludedIsRecorded ==
    \A i \in Seen :
        results[i].action = "excluded" =>
            /\ results[i].id \in DOMAIN processed
            /\ processed[results[i].id].has_speaker_opportunity = 0
            /\ processed[results[i].id].has_interest_match = 0

\* C5: needsReprocessing(id, m) is false for an id without record; with a
\* record it is true if the stored marker is absent, and otherwise true
\* exactly if m differs from the marker of the last markProcessed, the empty
\* string included.
C5_NeedsReprocessingLaw ==
    api.op = "needsReprocessing" =>
        api.ret =
            IF api.eventId \notin DOMAIN processed THEN FALSE
            ELSE IF processed[api.eventId].connpass_updated_at = NULL THEN TRUE
            ELSE processed[api.eventId].connpass_updated_at # api.currentUpdatedAt

\* C6: a markProcessed call with a null or absent calendarEventId leaves a
\* stored non-null identifier unchanged; a call carrying a non-null
\* identifier stores that identifier.
C6_CoalesceLaw ==
    api.op = "markProcessed" =>
        LET stored == processed[api.params.eventId].calendar_event_id
        IN IF api.params.calendarEventId = NULL
           THEN stored = api.before
           ELSE stored = api.params.calendarEventId

\* an identifier stored earlier has survived a call without identifier
C6_Witness ==
    /\ api.op = "markProcessed"
    /\ api.params.calendarEventId = NULL
    /\ api.before # NULL
    /\ processed[api.params.eventId].calendar_event_id = api.before

C8_PopularSpeakerByHeuristics ==
    \A i \in Seen :
        (/\ results[i].classified
         /\ PopularAt(i)
         /\ analyzeSpeakerOpportunity(fetched[i].title, << >>, << >>).has_lt_slot) =>
            /\ results[i].hasSpeakerOpportunity
            /\ processed[results[i].id].has_speaker_opportunity = 1

\* C9: a classified event is reconciled iff its interest verdict matches or
\* its speaker verdict has an opportunity; otherwise its action is
\* "no_match", its ProcessedRecord has both flags false, and no calendar
\* list, insert or update call is made for it.
C9_ReconciledIffMatch ==
    \A i \in Seen :
        results[i].classified =>
            LET r == results[i]
                match == r.interest_match.is_match \/ r.hasSpeakerOpportunity
            IN /\ (r.action \in Reconciled) <=> match
               /\ ~match =>
                     /\ r.action = "no_match"
                     /\ r.id \in DOMAIN processed
                     /\ processed[r.id].has_speaker_opportunity = 0
                     /\ processed[r.id].has_interest_match = 0
                     /\ CalendarCalls(r) = 0

\* an event with interest match false and speaker opportunity true is registered
C9_Witness ==
    \E i \in Seen :
        /\ results[i].classified
        /\ ~results[i].interest_match.is_match
        /\ results[i].hasSpeakerOpportunity
        /\ results[i].action = "registered"

\* C10: getColorId returns the speaker color whenever hasSpeakerOpportunity
\* is true, the popular color when only isPopular is true, and undefined
\* otherwise; the category of scanEvents follows the same priority.
C10_ColorPriority ==
    api.op = "getColorId" =>
        /\ api.ret = IF api.hasSpeakerOpportunity THEN cfg.color_speaker
                     ELSE IF api.isPopular THEN cfg.color_popular
                     ELSE NULL
        /\ api.category = IF api.hasSpeakerOpportunity THEN "speaker"
                          ELSE IF api.isPopular THEN "popular"
                          ELSE "interest"

\* both signals are present and the speaker color is returned
C10_Witness ==
    /\ api.op = "getColorId"
    /\ api.hasSpeakerOpportunity /\ api.isPopular
    /\ api.ret = ColorSpeaker
    /\ api.category = "speaker"

\* C11: when generateText throws for an event below the popularity threshold,
\* the event's verdicts are interest {match false, score 0} and speaker
\* {opportunity false}, its action is "no_match", and the scan goes on to
\* the next event without throwing.
C11_LlmThrowIsNoMatch ==
    \A i \in Seen :
        results[i].llmThrew =>
            /\ ~PopularAt(i)
            /\ results[i].interest_match = [is_match |-> FALSE, score |-> 0]
            /\ ~results[i].hasSpeakerOpportunity
            /\ results[i].action = "no_match"
            /\ status # "threw"
            /\ phase = "loop" => idx = Len(results) + 1

\* a scan completed although generateText threw for one of its events
C11_Witness ==
    /\ Done
    /\ \E i \in Seen : results[i].llmThrew /\ results[i].llm = 1

\* C12: when the calendar insert or update throws for a matched event, the
\* event's action is "skipped", its ProcessedRecord is written with the
\* verdict flags, the score and the current freshness marker, and the scan
\* goes on without throwing.
C12_WriteThrowIsSkipped ==
    \A i \in Seen :
        results[i].calThrew =>
            LET r == results[i] IN
            /\ CalendarWrites(r) = 1
            /\ r.action = "skipped"
            /\ r.id \in DOMAIN processed
            /\ processed[r.id].has_speaker_opportunity = Bit(r.hasSpeakerOpportunity)
            /\ processed[r.id].has_interest_match = Bit(r.interest_match.is_match)
            /\ processed[r.id].interest_score = r.interest_match.score
            /\ processed[r.id].connpass_updated_at = fetched[i].updated_at
            /\ status # "threw"
            /\ phase = "loop" => idx = Len(results) + 1

\* a scan completed although the calendar insert threw for a matched event
C12_Witness ==
    /\ Done
    /\ \E i \in Seen : results[i].calThrew /\ results[i].insert = 1

\* C13: after a scan in which a matched event's calendar write failed, a later
\* scan that finds the event with the same freshness marker gives it the
\* action "already_processed" and makes no calendar call for it: the write
\* is not retried before the marker changes.
C13_NoRetryUntilMarkerChanges ==
    [][(/\ phase = "loop" /\ idx <= Len(fetched)
        /\ syncFailedAt[fetched[idx].id] = fetched[idx].updated_at
        /\ idx' = idx + 1)
       => (/\ results'[idx].action = "already_processed"
           /\ results'[idx].auth = 0
           /\ CalendarCalls(results'[idx]) = 0
           /\ calendar' = calendar)]_vars

\* a later scan met the event whose calendar write failed, marker unchanged
C13_Witness ==
    \E i \in Seen :
        /\ syncFailedAt[results[i].id] = fetched[i].updated_at
        /\ ~results[i].calThrew
        /\ results[i].action = "already_processed"
        /\ results[i].id \in DOMAIN processed
        /\ processed[results[i].id].calendar_event_id = NULL

\* a scanEvents call ended by a failing page request
FetchFailed == status' = "threw" /\ scanNo' = scanNo + 1

\* a failed fetch leaves both tables and the calendar as they were and
\* makes no per-event call
FetchFailureFrame ==
    /\ eventsTable' = eventsTable
    /\ processed' = processed
    /\ calendar' = calendar
    /\ nextCal' = nextCal
    /\ results' = << >>

\* C14 as claimed: when a page request fails, scanEvents throws, no Event
\* row and no ProcessedRecord is written, and no LLM call and no call of
\* the calendar collaborator at all has been made.
C14_Claimed ==
    [][FetchFailed => (FetchFailureFrame /\ preAuth' = 0)]_vars

\* C14: when a page request fails, scanEvents throws, no Event row and no
\* ProcessedRecord is written, and no LLM call and no calendar list, insert
\* or update call has been made; the one calendar-collaborator call is the
\* isAuthenticated check made before fetching, exactly when the integration
\* is enabled and the scan is not a dry run.
C14_FetchFailureWritesNothing ==
    [][FetchFailed =>
         (/\ FetchFailureFrame
          /\ preAuth' = Bit(~cfg'.dryRun /\ cfg'.calendar_enabled))]_vars

\* a fetch failed after an earlier scan had filled the tables and the calendar
C14_Witness ==
    /\ status = "threw"
    /\ scanNo > 1
    /\ DOMAIN eventsTable # {}
    /\ DOMAIN processed # {}
    /\ calendar # {}
    /\ preAuth = 1

\* C15: with the integration enabled, an upsertEvent call issues exactly one
\* calendar write and never both kinds: when findExistingEvent found an
\* entry it is an update of that entry, answered with action "updated" and
\* the entry's identifier; otherwise it is an insert, answered with action
\* "created" and the new entry's identifier.
C15_UpsertWritesOnce ==
    (api.op = "upsertEvent" /\ api.enabled) =>
        /\ api.insert + api.update = 1
        /\ api.found # NULL =>
              /\ api.update = 1
              /\ ~api.threw =>
                    /\ api.action = "updated"
                    /\ api.calendarEventId = api.found
                    /\ calendar = {e \in api.before : e.id # api.found}
                                     \cup {[id |-> api.found, summary |-> api.event.title,
                                            source |-> api.event.id]}
        /\ api.found = NULL =>
              /\ api.insert = 1
              /\ ~api.threw =>
                    /\ api.action = "created"
                    /\ api.calendarEventId \notin {e.id : e \in api.before} \cup {NULL}
                    /\ calendar = api.before
                                     \cup {[id |-> api.calendarEventId,
                                            summary |-> api.event.title,
                                            source |-> api.event.id]}

\* an entry titled "Go LT" was found for the event "Go" and updated in place
C15_Witness ==
    /\ api.op = "upsertEvent" /\ api.enabled
    /\ api.found # NULL
    /\ api.action = "updated"
    /\ api.event.title = TitleGo
    /\ \E e \in api.before : e.id = api.found /\ e.summary = TitleGoLT
    /\ Cardinality(calendar) = Cardinality(api.before)

\* C16: with google_calendar.enabled false, upsertEvent answers action
\* "skipped" with a null identifier and issues no list, insert or update
\* call; a scan in that configuration calls the calendar collaborator not
\* once, and every matched event ends as "skipped".
C16_DisabledMakesNoCall ==
    /\ (api.op = "upsertEvent" /\ ~api.enabled) =>
          /\ api.action = "skipped"
          /\ api.calendarEventId = NULL
          /\ ~api.threw
          /\ api.list + api.insert + api.update = 0
          /\ calendar = api.before
    /\ (scanNo > 0 /\ ~cfg.calendar_enabled) =>
          /\ preAuth = 0
          /\ \A i \in Seen :
                /\ results[i].auth = 0
                /\ CalendarCalls(results[i]) = 0
                /\ (/\ results[i].classified
                    /\ results[i].interest_match.is_match \/ results[i].hasSpeakerOpportunity)
                   => results[i].action = "skipped"

\* a live scan with the integration disabled matched an event whose title
\* the calendar already holds, and skipped it
C16_Witness ==
    /\ Done
    /\ ~cfg.calendar_enabled /\ ~cfg.dryRun
    /\ \E i \in Seen :
          /\ results[i].classified
          /\ results[i].interest_match.is_match
          /\ results[i].action = "skipped"
          /\ ExistingMatches(calendar, fetched[i]) # {}

\* the event of results[i] was classified as a match
MatchedAt(i) ==
    /\ results[i].classified
    /\ results[i].interest_match.is_match \/ results[i].hasSpeakerOpportunity

\* the ProcessedRecord of results[i] carries its verdicts and current marker
RecordedAt(i) ==
    /\ results[i].id \in DOMAIN processed
    /\ processed[results[i].id].has_speaker_opportunity = Bit(results[i].hasSpeakerOpportunity)
    /\ processed[results[i].id].has_interest_match = Bit(results[i].interest_match.is_match)
    /\ processed[results[i].id].interest_score = results[i].interest_match.score
    /\ processed[results[i].id].connpass_updated_at = fetched[i].updated_at

\* C17: in a dry-run scan, or when isAuthenticated answers false, no calendar
\* list, insert or update call is made for any event, every matched event
\* ends as "skipped", and its ProcessedRecord is written all the same with
\* the verdict flags, the score and the current freshness marker.
C17_DryRunOrUnauthenticated ==
    \A i \in Seen :
        (cfg.dryRun \/ (results[i].auth = 1 /\ ~results[i].isAuth)) =>
            /\ CalendarCalls(results[i]) = 0
            /\ MatchedAt(i) => (results[i].action = "skipped" /\ RecordedAt(i))

\* a live scan matched an event, isAuthenticated answered false, and the
\* record was written without a calendar identifier
C17_Witness ==
    /\ Done
    /\ ~cfg.dryRun
    /\ \E i \in Seen :
          /\ MatchedAt(i)
          /\ results[i].auth = 1 /\ ~results[i].isAuth
          /\ results[i].action = "skipped"
          /\ RecordedAt(i)
          /\ processed[results[i].id].calendar_event_id = NULL

\* C18: after any sequence of non-overlapping scans the calendar holds at
\* most one entry per source event identifier, also when the event's title
\* was edited upstream between two scans.
C18_OneEntryPerSourceEvent ==
    \A id \in EventIds : Cardinality({e \in calendar : e.source = id}) <= 1

\* C19: when two scanEvents invocations overlap and both process the same
\* matched event, then, both lookups having been answered faithfully, the
\* calendar never ends with two entries for that event.
C19_OverlapNeverDuplicates ==
    (\A p \in Runs : runs[p].pc = "done" /\ runs[p].cleanLookup) =>
        \A id \in EventIds : Cardinality({e \in calendar : e.source = id}) < 2

\* C20: if a crash interrupted a scan after the ProcessedRecords of k events
\* were written, the next scan, finding one of those events with the same
\* freshness marker, gives it "already_processed" and sends it neither to
\* the LLM nor to the calendar.
C20_ResumeSkipsRecorded ==
    [][(/\ phase = "loop" /\ idx <= Len(fetched)
        /\ [id |-> fetched[idx].id, marker |-> fetched[idx].updated_at] \in interrupted
        /\ idx' = idx + 1)
       => (/\ results'[idx].action = "already_processed"
           /\ results'[idx].llm = 0
           /\ results'[idx].auth = 0
           /\ CalendarCalls(results'[idx]) = 0
           /\ processed' = processed
           /\ calendar' = calendar)]_vars

\* the scan after a crash met an event the interrupted scan had recorded
C20_Witness ==
    /\ interrupted # {}
    /\ \E i \in Seen :
          /\ [id |-> fetched[i].id, marker |-> fetched[i].updated_at] \in interrupted
          /\ results[i].action = "already_processed"

\* C24: the store holds at most one ProcessedRecord per event identifier; a
\* markProcessed call for an identifier that has a record replaces the
\* record's speaker flag, interest flag, score and freshness marker by the
\* new values and adds no record.
C24_MarkProcessedUpserts ==
    [][api'.op = "markProcessed" =>
         LET p == api'.params IN
         /\ DOMAIN processed' = DOMAIN processed \cup {p.eventId}
         /\ \A id \in DOMAIN processed' : processed'[id].event_id = id
         /\ processed'[p.eventId].has_speaker_opportunity = Bit(p.hasSpeakerOpportunity)
         /\ processed'[p.eventId].has_interest_match = Bit(p.hasInterestMatch)
         /\ processed'[p.eventId].interest_score = p.interestScore
         /\ processed'[p.eventId].connpass_updated_at = p.connpassUpdatedAt
         /\ \A id \in DOMAIN processed \ {p.eventId} : processed'[id] = processed[id]]_vars

\* a record that held a calendar identifier was marked again with other values
C24_Witness ==
    /\ api.op = "markProcessed"
    /\ api.before = "c1"
    /\ api.params.connpassUpdatedAt = "t2"
    /\ api.params.hasSpeakerOpportunity
    /\ processed[api.params.eventId].connpass_updated_at = "t2"
    /\ processed[api.params.eventId].has_speaker_opportunity = 1
    /\ DOMAIN processed = {api.params.eventId}

\* C25: an event that has a ProcessedRecord whose stored marker equals its
\* current updated_at gets "already_processed" in every scan; its record is
\* left unchanged and no LLM or calendar call is made for it.
C25_MarkerIsSoleTrigger ==
    [][(/\ phase = "loop" /\ idx <= Len(fetched)
        /\ fetched[idx].id \in DOMAIN processed
        /\ processed[fetched[idx].id].connpass_updated_at = fetched[idx].updated_at
        /\ idx' = idx + 1)
       => (/\ results'[idx].action = "already_processed"
           /\ processed' = processed
           /\ results'[idx].llm = 0
           /\ results'[idx].auth = 0
           /\ CalendarCalls(results'[idx]) = 0
           /\ calendar' = calendar)]_vars

\* an event recorded as no match, below the threshold and with the LLM
\* enabled, was met again with its marker unchanged
C25_Witness ==
    /\ scanNo > 1
    /\ cfg.llm_enabled
    /\ \E i \in Seen :
          /\ UnchangedAt(i)
          /\ ~PopularAt(i)
          /\ ~ExcludedTitleAt(i)
          /\ processed[fetched[i].id].has_interest_match = 0
          /\ results[i].action = "already_processed"
          /\ results[i].llm = 0

C22_SaveEventsAtomic ==
    api.op = "saveEvents" =>
        IF api.threw
        THEN eventsTable = api.before
        ELSE \A i \in DOMAIN api.events :
                /\ api.events[i].id \in DOMAIN eventsTable
                /\ eventsTable[api.events[i].id].title = api.events[i].title

\* the second upsert of a batch failed after the first would have changed a row
C22_Witness ==
    /\ api.op = "saveEvents" /\ api.threw
    /\ api.failAt = 2
    /\ api.events[1].id \in DOMAIN api.before
    /\ api.before[api.events[1].id].title # api.events[1].title
    /\ eventsTable = api.before

\* C23: after saveEvents(events) the row stored under each event's identifier
\* holds exactly that event's title, start and end time, venue name and
\* address, and online / local flags, whatever an earlier saveEvents had
\* stored there; the rows of other identifiers are as before.
C23_EventRowRoundTrip ==
    (api.op = "saveEvents" /\ ~api.threw) =>
        /\ \A i \in DOMAIN api.events :
              LET e == api.events[i]
                  row == eventsTable[e.id]
              IN /\ row.title = e.title
                 /\ row.started_at = e.started_at /\ row.ended_at = e.ended_at
                 /\ row.place = e.place /\ row.address = e.address
                 /\ (row.is_online = 1) = e.is_online
                 /\ (row.is_tokyo = 1) = e.is_tokyo
                 /\ row.is_online \in {0, 1} /\ row.is_tokyo \in {0, 1}
        /\ \A id \in DOMAIN api.before \ {api.events[i].id : i \in DOMAIN api.events} :
              /\ id \in DOMAIN eventsTable
              /\ eventsTable[id] = api.before[id]

\* a row saved earlier with other values was replaced
C23_Witness ==
    /\ api.op = "saveEvents" /\ ~api.threw
    /\ \E i \in DOMAIN api.events :
          /\ api.events[i].id \in DOMAIN api.before
          /\ api.before[api.events[i].id].title = TitleGo
          /\ api.before[api.events[i].id].is_online = 0
          /\ eventsTable[api.events[i].id].title = TitleBook
          /\ eventsTable[api.events[i].id].is_online = 1
          /\ eventsTable[api.events[i].id].place = "p1"

\* C27: analyzeEvent returns the safe default (interest not matched with
\* score 0, speaker verdict all false, every field defined) for every LLM
\* failure: generateText throwing, no JSON in the response, unparsable JSON,
\* or a parsed object in which a required field is missing.
C27_FailureGivesSafeDefault ==
    (/\ api.op = "analyzeEvent"
     /\ \/ api.llm.kind # "json"
        \/ api.llm.missing # {})
        => /\ api.result.interest = defaultResult.interest
           /\ api.result.speaker = defaultResult.speaker

\* C28: every SpeakerVerdict produced, by analyzeSpeakerOpportunity or by
\* the LLM path of analyzeEvent, has has_opportunity = (has_lt_slot OR has_cfp).
C28_OpportunityIsSlotOrCfp ==
    /\ api.op = "analyzeSpeakerOpportunity" =>
          api.speaker.has_opportunity = (api.speaker.has_lt_slot \/ api.speaker.has_cfp)
    /\ (api.op = "analyzeEvent" /\ ~api.threw) =>
          api.result.speaker.has_opportunity
              = (api.result.speaker.has_lt_slot \/ api.result.speaker.has_cfp)

\* C29: every interest score a scan attaches to an event or stores in a
\* ProcessedRecord is an integer from 0 to 100, on every classification path.
C29_ScoreInRange ==
    /\ \A i \in DOMAIN results :
          results[i].classified => results[i].interest_match.score \in 0..100
    /\ \A id \in DOMAIN processed : processed[id].interest_score \in 0..100

\* C21: within one scan the events are handled one at a time in the order
\* getEvents returned them: at most one remote call is outstanding at any
\* moment, a call outstanding inside the loop belongs to the event the loop
\* is at, every earlier event has its result (and, when classified, its
\* ProcessedRecord) before that call starts, and the result list follows
\* the order of the fetched list.
C21_StrictlySequential ==
    phase \in {"start", "loop"} =>
        /\ Cardinality(outstanding) <= 1
        /\ \A c \in outstanding :
              IF phase = "start" THEN c.event = 0
              ELSE c.event = idx /\ Len(results) = idx - 1
        /\ Len(results) <= Len(fetched)
        /\ \A i \in DOMAIN results :
              /\ results[i].id = fetched[i].id
              /\ results[i].classified => results[i].id \in DOMAIN processed

\* the calendar write of the second event is in flight; the first event went
\* through the LLM and the calendar and has its result and record
C21_Witness ==
    /\ phase = "loop" /\ idx = 2
    /\ \E c \in outstanding : c.kind = "insert" /\ c.event = 2
    /\ Len(results) = 1
    /\ results[1].llm = 1 /\ results[1].insert = 1
    /\ results[1].id = fetched[1].id
    /\ results[1].id \in DOMAIN processed

PagesOf(p) == SelectSeq(api.log, LAMBDA r : r.period = p)

\* C31: for each queried period getEvents requests pages with start = 1, 101,
\* 201, ..., stops at the first page with fewer than 100 results or after at
\* most 5 pages, and reaching that cap is no error: the call goes on to the
\* next period and returns.
C31_PaginationBounded ==
    api.op = "getEvents" =>
        /\ \A p \in 1..api.months :
              LET pages == PagesOf(p)
              IN /\ Len(pages) <= 5
                 /\ \A k \in DOMAIN pages :
                       /\ pages[k].start = 1 + Count * (k - 1)
                       /\ k < Len(pages) => pages[k].results_returned >= Count
                 /\ (p < api.period \/ api.state = "returned") =>
                       /\ Len(pages) >= 1
                       /\ \/ pages[Len(pages)].results_returned < Count
                          \/ Len(pages) = 5
                 /\ p > api.period => pages = << >>
        /\ Len(api.log) <= 5 * api.months
        /\ api.state = "fetching" => Len(PagesOf(api.period)) < 5
        /\ api.capped # {} => api.state # "threw" \/ api.period \notin api.capped

\* the first period ran into the cap with five full pages, the second period
\* was then queried and getEvents returned
C31_Witness ==
    /\ api.op = "getEvents" /\ api.state = "returned" /\ api.months = 2
    /\ 1 \in api.capped
    /\ Len(PagesOf(1)) = 5
    /\ PagesOf(1)[5].start = 401 /\ PagesOf(1)[5].results_returned = 100
    /\ Len(PagesOf(2)) = 1
    /\ api.total = 550

\* C32: the tables created by initializeDatabase on a fresh store contain
\* every column EventRepository's statements name, so the repository is built
\* and saveEvents, markProcessed, needsReprocessing and
\* getUnprocessedEventIds succeed.
C32_SchemaSupportsStatements ==
    (db.state = "initialized" /\ db.fresh) =>
        /\ \A k \in DOMAIN PrepareOrder : prepares(db.tables, PrepareOrder[k])
        /\ db.repo # "threw"

\* keyword occurs, letter case ignored, in the title, the tagline or the
\* description without its markup
KeywordOccurs(keyword, event) ==
    LET kw == ToLowerCase(keyword)
    IN \/ Includes(ToLowerCase(event.title), kw)
       \/ Includes(ToLowerCase(event.catch), kw)
       \/ Includes(ToLowerCase(stripHtml(event.description)), kw)

\* keywords with the entries at positions k and k + 1 exchanged
SwapAt(keywords, k) ==
    [i \in DOMAIN keywords |->
        IF i = k THEN keywords[k + 1] ELSE IF i = k + 1 THEN keywords[k] ELSE keywords[i]]

\* C33: matchKeywords gives no match and score 0 for an empty keyword list;
\* otherwise is_match holds iff some configured keyword occurs, the score is
\* round(100 * matchedCount / totalConfiguredKeywords), within 0..100, and
\* flag and score are the same for every order of the list (every order is
\* reached by exchanging neighbours).
C33_KeywordScore ==
    api.op = "matchKeywords" =>
        LET n == Len(api.keywords)
            matchedCount == Cardinality({k \in 1..n : KeywordOccurs(api.keywords[k], api.event)})
        IN IF n = 0
           THEN ~api.result.is_match /\ api.result.score = 0
           ELSE /\ api.result.is_match = (matchedCount > 0)
                /\ api.result.score \in 0..100
                /\ api.result.score = (200 * matchedCount + n) \div (2 * n)
                /\ \A k \in 1..(n - 1) :
                      LET other == matchKeywords(api.event, SwapAt(api.keywords, k))
                      IN /\ other.is_match = api.result.is_match
                         /\ other.score = api.result.score

\* the entries of a keyword list
Entries(list) == {list[k] : k \in DOMAIN list}

\* C34: has_lt_slot holds iff some slot keyword occurs in the title or the
\* tagline, has_cfp iff some CFP keyword occurs in the combined text, and
\* detected_keywords holds, without duplicates, every keyword of the slot,
\* CFP and general lists that occurs in its text scope.
C34_DetectedKeywordsComplete ==
    api.op = "analyzeSpeakerOpportunity" =>
        LET title == ToLowerCase(api.event.title)
            catchText == ToLowerCase(api.event.catch)
            combinedText == title \o <<" ">> \o catchText \o <<" ">>
                            \o ToLowerCase(stripHtml(api.event.description))
            inSlotScope(kw) == Includes(title, ToLowerCase(kw)) \/ Includes(catchText, ToLowerCase(kw))
            inCombined(kw) == Includes(combinedText, ToLowerCase(kw))
            detected == api.speaker.detected_keywords
        IN /\ api.speaker.has_lt_slot = (\E kw \in Entries(SLOT_KEYWORDS) : inSlotScope(kw))
           /\ api.speaker.has_cfp = (\E kw \in Entries(CFP_KEYWORDS) : inCombined(kw))
           /\ \A i, j \in DOMAIN detected : i # j => detected[i] # detected[j]
           /\ \A kw \in Entries(SLOT_KEYWORDS) : inSlotScope(kw) => kw \in Entries(detected)
           /\ \A kw \in Entries(CFP_KEYWORDS) \cup Entries(SPEAKER_KEYWORDS) :
                 inCombined(kw) => kw \in Entries(detected)

\* C35: after any sequence of scans two ProcessedRecords with different event
\* identifiers never hold the same non-null calendar_event_id, and a scan
\* never updates a calendar entry that was created for another source event,
\* also when one title contains the other and the time windows overlap.
C35_EntriesNotShared ==
    [][/\ \A i, j \in DOMAIN processed' :
              (i # j /\ processed'[i].calendar_event_id # NULL)
                  => processed'[i].calendar_event_id # processed'[j].calendar_event_id
       /\ \A e \in calendar, f \in calendar' : e.id = f.id => e.source = f.source]_vars

\* the step of the scan restarted after an interrupted insert that handles
\* the event whose insert was interrupted
RecoveryStep ==
    /\ phase = "loop"
    /\ idx <= Len(fetched)
    /\ \E r \in interrupted : r.id = fetched[idx].id
    /\ Len(results') = Len(results) + 1

InterruptedEntry == (CHOOSE r \in interrupted : TRUE).entry

C37_NoMatchKeepsEntry ==
    [][/\ {e.id : e \in calendar} \subseteq {e.id : e \in calendar'}
       /\ (/\ phase = "loop"
           /\ Len(results') = Len(results) + 1
           /\ results'[Len(results')].action = "no_match"
           /\ isProcessed(processed, fetched[idx].id)
           /\ processed[fetched[idx].id].calendar_event_id # NULL) =>
              LET res == results'[Len(results')]
                  id == fetched[idx].id
              IN /\ CalendarCalls(res) = 0
                 /\ res.auth = 0
                 /\ calendar' = calendar
                 /\ processed'[id].calendar_event_id = processed[id].calendar_event_id
                 /\ processed'[id].has_speaker_opportunity = 0
                 /\ processed'[id].has_interest_match = 0
                 /\ processed'[id].connpass_updated_at = fetched[idx].updated_at]_vars

C37_Witness ==
    /\ scanNo = 2
    /\ Len(results) = 1
    /\ results[1].action = "no_match"
    /\ processed[results[1].id].calendar_event_id = "c1"
    /\ processed[results[1].id].has_interest_match = 0
    /\ processed[results[1].id].connpass_updated_at = "t2"
    /\ \E e \in calendar : e.id = "c1" /\ e.source = results[1].id

\* C38: an event below the popularity threshold that is classified while
\* llm.enabled is false or while the LLM call fails is recorded as no_match
\* with its current marker; an event so recorded is "already_processed" in
\* every later scan that finds the marker unchanged, whatever the LLM setting
\* then is, and no LLM call is made for it.
C38_UnansweredIsFinal ==
    [][(phase = "loop" /\ idx <= Len(fetched) /\ Len(results') = Len(results) + 1) =>
          LET res == results'[Len(results')]
              event == fetched[idx]
          IN /\ (/\ res.classified
                 /\ ~isPopularEvent(event, cfg.min_participants)
                 /\ ~cfg.llm_enabled \/ res.llmThrew) =>
                    /\ res.action = "no_match"
                    /\ processed'[event.id].connpass_updated_at = event.updated_at
                    /\ processed'[event.id].has_interest_match = 0
                    /\ processed'[event.id].has_speaker_opportunity = 0
                    /\ processed'[event.id].interest_score = 0
             /\ (/\ isProcessed(processed, event.id)
                 /\ processed[event.id].interest_score = 0
                 /\ processed[event.id].has_interest_match = 0
                 /\ processed[event.id].has_speaker_opportunity = 0
                 /\ processed[event.id].connpass_updated_at = event.updated_at) =>
                    /\ res.action = "already_processed"
                    /\ ~res.classified
                    /\ res.llm = 0
                    /\ processed' = processed]_vars

\* the LLM was disabled when the event was recorded and is enabled and
\* answering in the scan that finds it again
C38_Witness ==
    /\ scanNo = 2
    /\ cfg.llm_enabled
    /\ Len(results) = 1
    /\ results[1].action = "already_processed"
    /\ ~isPopularEvent(fetched[1], cfg.min_participants)
    /\ processed[fetched[1].id].interest_score = 0
    /\ processed[fetched[1].id].has_interest_match = 0
    /\ processed[fetched[1].id].connpass_updated_at = fetched[1].updated_at

\* C39: in daemon mode the failure of a scheduled scan is caught and logged
\* and the job stays scheduled, so that the next trigger starts a scan; once
\* a command has called scanEvents, the process exits with a non-zero code
\* only when the initial scan of the daemon or the scan of the scan command
\* failed.
C39_DaemonSurvivesScanFailure ==
    [][/\ (ScanFailed /\ proc.state = "job" /\ proc' # proc) =>
              /\ proc'.state = "scheduled"
              /\ proc'.exitCode = NULL
              /\ proc'.log = "Scheduled scan failed"
       /\ (ScanFailed /\ proc.state = "initial" /\ proc' # proc) =>
              /\ proc'.state = "exited"
              /\ proc'.exitCode = "1"
       /\ (proc.state # "none" /\ proc.exitCode = NULL /\ proc'.exitCode \notin {NULL, "0"}) =>
              ScanFailed /\ proc.state = "initial"
       /\ (proc.failed > 0 /\ proc.state = "job" /\ scanNo' = scanNo + 1) =>
              phase' = "loop" \/ status' = "threw"]_vars

\* a scheduled scan failed, the next trigger fired and its scan is running
C39_Witness ==
    /\ proc.command = "daemon"
    /\ proc.failed = 1
    /\ proc.fired = 2
    /\ proc.state = "job"
    /\ proc.exitCode = NULL
    /\ phase = "loop"
    /\ scanNo = 3

\* the events the source returned to the current / last scan, in order
AllEvents == runs[1].allEvents

\* the positions of AllEvents that hold the last copy of their identifier
LastCopies == {i \in DOMAIN AllEvents :
                  \A j \in DOMAIN AllEvents : AllEvents[j].id = AllEvents[i].id => j <= i}

\* C40: the list getEvents returns holds each event identifier at most once,
\* also when the source returned the event in several pages, and holds the
\* copy returned last; one scan therefore produces at most one result and at
\* most one ProcessedRecord write per event identifier.
C40_OneCopyPerIdentifier ==
    (phase = "loop" \/ (phase = "idle" /\ status = "done")) =>
        /\ \A i, j \in DOMAIN fetched : fetched[i].id = fetched[j].id => i = j
        /\ {fetched[i] : i \in DOMAIN fetched} = {AllEvents[i] : i \in LastCopies}
        /\ \A i, j \in DOMAIN results : results[i].id = results[j].id => i = j
        /\ \A id \in SeqIds :
              Cardinality({i \in DOMAIN results : results[i].id = id /\ results[i].classified}) <= 1

\* the source returned two different copies of one event; the scan is over
C40_Witness ==
    /\ phase = "idle"
    /\ status = "done"
    /\ Len(AllEvents) = 2
    /\ AllEvents[1].id = AllEvents[2].id
    /\ AllEvents[1] # AllEvents[2]
    /\ fetched = <<AllEvents[2]>>
    /\ Len(results) = 1
    /\ results[1].classified

====
